---------------------------- MODULE Spec2Model ----------------------------
(***************************************************************************)
(* Model of poem-parser-bot: the relational poem store                     *)
(* (src/api/utils/db_utils.py), the JSON-file poem store                   *)
(* (src/utils/db_utils.py) and the Telegram capture sessions               *)
(* (src/bot/main.py).                                                      *)
(*                                                                         *)
(* Text values (user ids, names, titles, poem texts, slugs, URLs) are      *)
(* sequences of one-character strings, so that strip(), slugify() and the  *)
(* f-string concatenations are computed character by character.            *)
(***************************************************************************)
EXTENDS Integers, Sequences, FiniteSets, TLC

VARIABLES
    users,            \* table users   : rows [id, user_id]
    authors,          \* table authors : rows [id, user_id, author, author_slug]
    poems,            \* table poems   : rows [author_id, title, title_slug, poem,
                      \*                       poem_url, request_id, upload_at]
    users_id_seq,     \* next value of the SERIAL users.id
    authors_id_seq,   \* next value of the SERIAL authors.id
    poems_json,       \* content of DB_PATH (poems.json): user -> author_id -> entry
    now,              \* datetime.now().replace(microsecond=0), in seconds
    last,             \* the last completed call / handler and what it answered
    prev,             \* the call completed before the last one
    ops,              \* number of calls made so far (bounded by MaxOps)
    pc,               \* concurrent API requests: position of each request
    req,              \* concurrent API requests: arguments and local variables
    json_ok,          \* poems.json holds a complete JSON document
    user_sessions,    \* bot: user_id -> request_id
    user_data,        \* bot: user_id -> [author, title, text]
    temp_dir,         \* bot: TEMP_DIR, request_id -> set of file names
    uuid_seq          \* bot: number of session ids generated so far

dbvars   == <<users, authors, poems, users_id_seq, authors_id_seq>>
concvars == <<pc, req, json_ok>>
botvars  == <<user_sessions, user_data, temp_dir, uuid_seq>>
vars     == <<users, authors, poems, users_id_seq, authors_id_seq, poems_json,
              now, last, prev, ops, pc, req, json_ok, user_sessions, user_data,
              temp_dir, uuid_seq>>

-----------------------------------------------------------------------------
(* Bounds of the model *)

MaxOps == 2          \* calls per behaviour of the sequential store model
MaxClock == 1        \* seconds the clock may advance
MaxRequests == 2     \* API requests per behaviour of the concurrent store model
MaxUpdates == 4      \* Telegram updates per behaviour of the bot model
MaxJsonCalls == 3    \* calls per behaviour of the concurrent JSON store model

-----------------------------------------------------------------------------
(* Text helpers *)

\* Python None (distinct from the empty string <<>>; both are falsy)
NoneVal == <<"<None>">>

Truthy(v) == v # NoneVal /\ v # <<>>

Whitespace == {" ", "\n"}

RECURSIVE LStrip(_)
LStrip(s) ==
    IF s = <<>> THEN s
    ELSE IF Head(s) \in Whitespace THEN LStrip(Tail(s)) ELSE s

RECURSIVE RStrip(_)
RStrip(s) ==
    IF s = <<>> THEN s
    ELSE IF s[Len(s)] \in Whitespace THEN RStrip(SubSeq(s, 1, Len(s) - 1))
         ELSE s

\* str.strip()
Strip(s) == RStrip(LStrip(s))

LowerLetters == {"a", "b", "c", "d", "e", "f", "g", "h", "i", "j", "k", "l",
                 "m", "n", "o", "p", "q", "r", "s", "t", "u", "v", "w", "x",
                 "y", "z"}
Digits == {"0", "1", "2", "3", "4", "5", "6", "7", "8", "9"}

\* the characters slugify() folds onto an ASCII lowercase letter:
\* upper case letters (lowercase=True) and accented letters (unidecode);
\* "E'" stands for an accented E, "e'" for an accented e
Folded == [c \in {"D", "E", "H", "O", "P", "E'", "e'"} |->
              CASE c = "D" -> "d"
                [] c = "E" -> "e"
                [] c = "H" -> "h"
                [] c = "O" -> "o"
                [] c = "P" -> "p"
                [] c = "E'" -> "e"
                [] c = "e'" -> "e"]

\* one character after transliteration and lowercasing; every character that
\* is not alphanumeric becomes the separator
SlugChar(c) ==
    IF c \in LowerLetters \cup Digits THEN c
    ELSE IF c \in DOMAIN Folded THEN Folded[c]
    ELSE "-"

RECURSIVE CollapseSep(_, _)
\* runs of the separator sep become a single sep
CollapseSep(s, sep) ==
    IF Len(s) < 2 THEN s
    ELSE IF s[1] = sep /\ s[2] = sep THEN CollapseSep(Tail(s), sep)
         ELSE <<s[1]>> \o CollapseSep(Tail(s), sep)

\* runs of the separator collapsed, leading and trailing separator kept
TrimSep_NoTrim(s, sep) == CollapseSep(s, sep)

\* runs of the separator collapsed and one leading and trailing sep removed
TrimSep(s, sep) ==
    LET c == CollapseSep(s, sep)
        l == IF c # <<>> /\ Head(c) = sep THEN Tail(c) ELSE c
    IN  IF l # <<>> /\ l[Len(l)] = sep THEN SubSeq(l, 1, Len(l) - 1) ELSE l

\* slugify(text): lowercase, diacritics stripped, every run of
\* non-alphanumerics collapsed to one "-", no leading or trailing "-"
slugify(s) == TrimSep([i \in 1..Len(s) |-> SlugChar(s[i])], "-")

-----------------------------------------------------------------------------
(* Inputs *)

MAIN_USER_ID == <<"4", "2">>

UserIds == {<<"4", "2">>, <<"7">>}

\* "E D" and "e-d" have the same slug; "e-d " differs from "e-d" only by
\* surrounding whitespace
AuthorNames == {<<"E", " ", "D">>, <<"e", "-", "d", " ">>, <<"P", "o">>}

Titles == {<<"H", "o", "p", "e">>, <<"O", "d", "e", "!">>}

Texts == {<<"v", "1">>, <<"v", "2", "\n">>}

\* the correlation id of the n-th call (callers generate one id per request)
RequestIdOf(n) == <<"r", "-">> \o [i \in 1..n |-> "i"]


-----------------------------------------------------------------------------
(* Mapping helpers (Python dicts are functions with a finite domain) *)

EmptyMap == [k \in {} |-> {}]

Put(f, k, v) == [x \in (DOMAIN f) \cup {k} |-> IF x = k THEN v ELSE f[x]]

Remove(f, k) == [x \in (DOMAIN f) \ {k} |-> f[x]]

\* str(v) of a payload value: a string is itself, None becomes "None"
PyStr(v) == IF v = NoneVal THEN <<"N", "o", "n", "e">> ELSE v

\* a payload of /api/upload_poem
PoemDict(user_id, author, title, text, request_id) ==
    [user_id |-> user_id, author |-> author, title |-> title, text |-> text,
     request_id |-> request_id]

-----------------------------------------------------------------------------
(* The relational store: src/api/utils/db_utils.py                         *)
(* A database D is a record of the three tables and the two id sequences.  *)

DB(U, A, P, us, as) ==
    [users |-> U, authors |-> A, poems |-> P, users_id_seq |-> us,
     authors_id_seq |-> as]

\* the tables after init_db on an empty database
init_db == DB({}, {}, {}, 1, 1)

\* SELECT id FROM users WHERE user_id = %s
SelectUser(D, user_id) == {u \in D.users : u.user_id = user_id}

\* SELECT id FROM authors WHERE user_id = %s AND author_slug = %s
SelectAuthor(D, user_db_id, author_slug) ==
    {a \in D.authors : a.user_id = user_db_id /\ a.author_slug = author_slug}

\* INSERT INTO users (user_id) VALUES (%s) RETURNING id
InsertUser(D, user_id) ==
    [D EXCEPT !.users = @ \cup {[id |-> D.users_id_seq, user_id |-> user_id]},
              !.users_id_seq = @ + 1]

\* ensure_user: the user's database id, the row being created when absent
ensure_user(D, user_id) ==
    LET user == SelectUser(D, user_id)
    IN  IF user # {}
        THEN [db |-> D, id |-> (CHOOSE u \in user : TRUE).id]
        ELSE [db |-> InsertUser(D, user_id), id |-> D.users_id_seq]

\* UPDATE authors SET author = %s WHERE id = %s
UpdateAuthor(D, author_db_id, author_name) ==
    [D EXCEPT !.authors =
        {IF a.id = author_db_id THEN [a EXCEPT !.author = author_name] ELSE a
            : a \in @}]

\* INSERT INTO authors (user_id, author_slug, author) VALUES (...) RETURNING id
InsertAuthor(D, user_db_id, author_slug, author_name) ==
    [D EXCEPT !.authors = @ \cup {[id |-> D.authors_id_seq,
                                   user_id |-> user_db_id,
                                   author |-> author_name,
                                   author_slug |-> author_slug]},
              !.authors_id_seq = @ + 1]

\* ensure_author without the UPDATE of the display name of an existing row
ensure_author_NoUpdate(D, user_db_id, author_name) ==
    LET author_slug == slugify(author_name)
        author == SelectAuthor(D, user_db_id, author_slug)
    IN  IF author # {}
        THEN [db |-> D, id |-> (CHOOSE a \in author : TRUE).id]
        ELSE [db |-> InsertAuthor(D, user_db_id, author_slug, author_name),
              id |-> D.authors_id_seq]

\* ensure_author: the author's database id; an existing row gets the display
\* name written again, an absent one is created
ensure_author(D, user_db_id, author_name) ==
    LET author_slug == slugify(author_name)
        author == SelectAuthor(D, user_db_id, author_slug)
    IN  IF author # {}
        THEN LET id == (CHOOSE a \in author : TRUE).id
             IN  [db |-> UpdateAuthor(D, id, author_name), id |-> id]
        ELSE [db |-> InsertAuthor(D, user_db_id, author_slug, author_name),
              id |-> D.authors_id_seq]

\* the URL path upload_to_db computes
PoemUrl(user_id, author, title) ==
    IF user_id = MAIN_USER_ID
    THEN slugify(author) \o <<"/">> \o slugify(title)
    ELSE <<"i", "d", "/">> \o user_id \o <<"/">> \o slugify(author)
             \o <<"/">> \o slugify(title)

\* a plain INSERT INTO poems, without the ON CONFLICT clause and its constraint
UpsertPoem_NoConflict(D, author_db_id, title_slug, title, text, url, rid, at) ==
    [D EXCEPT !.poems =
        @ \cup {[author_id |-> author_db_id, title_slug |-> title_slug,
                 title |-> title, poem |-> text, poem_url |-> url,
                 request_id |-> rid, upload_at |-> at]}]

\* INSERT INTO poems ... ON CONFLICT (author_id, title_slug) DO UPDATE SET ...
\* (poems.id is never read by the program and is left out of the rows)
UpsertPoem(D, author_db_id, title_slug, title, text, url, rid, at) ==
    [D EXCEPT !.poems =
        {p \in @ : ~(p.author_id = author_db_id /\ p.title_slug = title_slug)}
        \cup {[author_id |-> author_db_id, title_slug |-> title_slug,
               title |-> title, poem |-> text, poem_url |-> url,
               request_id |-> rid, upload_at |-> at]}]

\* upload_to_db run to completion with no other call in between;
\* raised = TRUE stands for the ValueError of an empty user_id
\* (user_id = str(poem_dict.get("user_id")); if not user_id: raise)
upload_to_db(D, poem_dict, clock) ==
    LET user_id == PyStr(poem_dict.user_id)
        author == Strip(poem_dict.author)
        title == Strip(poem_dict.title)
        text == Strip(poem_dict.text)
        request_id == Strip(poem_dict.request_id)
    IN  IF user_id = <<>>
        THEN [db |-> D, raised |-> TRUE, poem_url |-> <<>>]
        ELSE LET eu == ensure_user(D, user_id)
                 ea == ensure_author(eu.db, eu.id, author)
                 poem_url == PoemUrl(user_id, author, title)
             IN  [db |-> UpsertPoem(ea.db, ea.id, slugify(title), title, text,
                                    poem_url, request_id, clock),
                  raised |-> FALSE, poem_url |-> poem_url]

\* ON DELETE CASCADE from users to authors and from authors to poems
Cascade(D) ==
    LET A == {a \in D.authors : \E u \in D.users : u.id = a.user_id}
    IN  [D EXCEPT !.authors = A,
                  !.poems = {p \in @ : \E a \in A : a.id = p.author_id}]

\* delete_user_db on tables declared without ON DELETE CASCADE
delete_user_db_NoCascade(D, user_id) ==
    LET user == SelectUser(D, user_id)
    IN  IF user = {} THEN D
        ELSE LET id == (CHOOSE u \in user : TRUE).id
             IN  [D EXCEPT !.users = {u \in @ : u.id # id}]

\* delete_user_db: DELETE FROM users WHERE id = %s, cascading
delete_user_db(D, user_id) ==
    LET user == SelectUser(D, user_id)
    IN  IF user = {} THEN D
        ELSE LET id == (CHOOSE u \in user : TRUE).id
             IN  Cascade([D EXCEPT !.users = {u \in @ : u.id # id}])

\* delete_author_db on tables declared without ON DELETE CASCADE
delete_author_db_NoCascade(D, user_id, author) ==
    LET user == SelectUser(D, user_id)
    IN  IF user = {} THEN D
        ELSE LET author_row == SelectAuthor(D, (CHOOSE u \in user : TRUE).id,
                                            slugify(author))
             IN  IF author_row = {} THEN D
                 ELSE LET id == (CHOOSE a \in author_row : TRUE).id
                      IN  [D EXCEPT !.authors = {a \in @ : a.id # id}]

\* delete_author_db: DELETE FROM authors WHERE id = %s, cascading to poems
delete_author_db(D, user_id, author) ==
    LET user == SelectUser(D, user_id)
    IN  IF user = {} THEN D
        ELSE LET author_row == SelectAuthor(D, (CHOOSE u \in user : TRUE).id,
                                            slugify(author))
             IN  IF author_row = {} THEN D
                 ELSE LET id == (CHOOSE a \in author_row : TRUE).id
                      IN  Cascade([D EXCEPT !.authors = {a \in @ : a.id # id}])

\* delete_poem_db deleting by title slug among all authors of the user
delete_poem_db_AnyAuthor(D, user_id, author, title) ==
    LET user == SelectUser(D, user_id)
    IN  IF user = {} THEN D
        ELSE LET ids == {a.id : a \in {b \in D.authors :
                                \E u \in user : u.id = b.user_id}}
             IN  [D EXCEPT !.poems =
                     {p \in @ : ~(p.author_id \in ids
                                  /\ p.title_slug = slugify(title))}]

\* delete_poem_db: DELETE FROM poems WHERE author_id = %s AND title_slug = %s
delete_poem_db(D, user_id, author, title) ==
    LET user == SelectUser(D, user_id)
    IN  IF user = {} THEN D
        ELSE LET author_row == SelectAuthor(D, (CHOOSE u \in user : TRUE).id,
                                            slugify(author))
             IN  IF author_row = {} THEN D
                 ELSE LET id == (CHOOSE a \in author_row : TRUE).id
                      IN  [D EXCEPT !.poems =
                              {p \in @ : ~(p.author_id = id
                                           /\ p.title_slug = slugify(title))}]

\* get_poem whose join leaves out the users table (WHERE u.user_id = %s)
get_poem_AnyUser(D, user_id, author_slug, title_slug) ==
    {[author |-> a.author, title |-> p.title, poem |-> p.poem,
      poem_url |-> p.poem_url, request_id |-> p.request_id,
      upload_at |-> p.upload_at] :
        <<p, a>> \in {pa \in D.poems \X D.authors :
            /\ pa[1].author_id = pa[2].id
            /\ pa[2].author_slug = author_slug
            /\ pa[1].title_slug = title_slug}}

\* get_poem: the records the three-table join yields for the key (fetchone
\* returns one of them; None when there is none)
get_poem(D, user_id, author_slug, title_slug) ==
    {[author |-> a.author, title |-> p.title, poem |-> p.poem,
      poem_url |-> p.poem_url, request_id |-> p.request_id,
      upload_at |-> p.upload_at] :
        <<p, a>> \in {pa \in D.poems \X D.authors :
            /\ pa[1].author_id = pa[2].id
            /\ pa[2].author_slug = author_slug
            /\ pa[1].title_slug = title_slug
            /\ \E u \in D.users : u.id = pa[2].user_id /\ u.user_id = user_id}}

\* get_poems_by_user: author_slug -> [author, poems: title_slug -> poem info],
\* built from the rows of authors JOIN poems of the user
get_poems_by_user(D, user_id) ==
    LET user == SelectUser(D, user_id)
        rows == {pa \in D.poems \X D.authors :
                    /\ pa[1].author_id = pa[2].id
                    /\ \E u \in user : u.id = pa[2].user_id}
        slugs == {pa[2].author_slug : pa \in rows}
        of(s) == {pa \in rows : pa[2].author_slug = s}
    IN  [s \in slugs |->
            [author |-> (CHOOSE pa \in of(s) : TRUE)[2].author,
             poems |-> [t \in {pa[1].title_slug : pa \in of(s)} |->
                 LET p == (CHOOSE pa \in of(s) : pa[1].title_slug = t)[1]
                 IN  [title |-> p.title, poem |-> p.poem,
                      request_id |-> p.request_id, upload_at |-> p.upload_at,
                      poem_url |-> p.poem_url]]]]

\* the orders in which ORDER BY upload_at DESC can return the rows S: newest
\* first, rows of one upload_at in any order
OrderByUploadAtDesc(S) ==
    {q \in [1..Cardinality(S) -> S] :
        /\ \A i, j \in DOMAIN q : i # j => q[i] # q[j]
        /\ \A i, j \in DOMAIN q : i < j => q[i].upload_at >= q[j].upload_at}

\* get_poems_by_author: the results the call can return, one per authors row
\* that fetchone can yield for (user_id, author_slug) and per order the poems
\* query can return its rows in; poems lists the entries of the returned
\* dict in their order; the empty set stands for None (no such author)
get_poems_by_author(D, user_id, author_slug) ==
    LET user == SelectUser(D, user_id)
        author_rows == {a \in D.authors : /\ a.author_slug = author_slug
                                          /\ \E u \in user : u.id = a.user_id}
        of(a) == {p \in D.poems : p.author_id = a.id}
        entry(p) == [title_slug |-> p.title_slug, title |-> p.title,
                     poem |-> p.poem, poem_url |-> p.poem_url,
                     request_id |-> p.request_id, upload_at |-> p.upload_at]
    IN  UNION {{[author_slug |-> author_slug, author |-> a.author,
                 poems |-> [i \in DOMAIN q |-> entry(q[i])]] :
                    q \in OrderByUploadAtDesc(of(a))} : a \in author_rows}

-----------------------------------------------------------------------------
(* The JSON-file store: src/utils/db_utils.py                              *)
(* J is the dictionary held in poems.json.                                 *)

\* upload_to_db run to completion (load_poems, update, upload_poems)
upload_to_db_json(J, poem_dict, clock) ==
    LET user_id == PyStr(poem_dict.user_id)
        author == Strip(poem_dict.author)
        author_id == slugify(author)
        title == Strip(poem_dict.title)
        title_id == slugify(title)
        poem_url == author_id \o <<"/">> \o title_id
        poem_info == [title |-> title, poem |-> Strip(poem_dict.text),
                      request_id |-> Strip(poem_dict.request_id),
                      upload_at |-> clock, poem_url |-> poem_url]
        \* poems.setdefault(user_id, {})
        J1 == IF user_id \in DOMAIN J THEN J ELSE Put(J, user_id, EmptyMap)
        \* poems[user_id].setdefault(author_id, {"author": author, "poems": {}})
        entry == IF author_id \in DOMAIN J1[user_id]
                 THEN J1[user_id][author_id]
                 ELSE [author |-> author, poems |-> EmptyMap]
        \* if author != author_dict["author"]: author_dict["author"] = author
        named == IF author # entry.author
                 THEN [entry EXCEPT !.author = author] ELSE entry
        \* author_dict["poems"][title_id] = poem_info
        author_dict == [named EXCEPT !.poems = Put(@, title_id, poem_info)]
    IN  IF user_id = <<>>
        THEN [db |-> J, raised |-> TRUE, poem_url |-> <<>>]
        ELSE [db |-> Put(J1, user_id, Put(J1[user_id], author_id, author_dict)),
              raised |-> FALSE, poem_url |-> poem_url]

get_poems_by_user_json(J, user_id) ==
    IF user_id \in DOMAIN J THEN J[user_id] ELSE EmptyMap

delete_user_db_json(J, user_id) ==
    IF user_id \in DOMAIN J THEN Remove(J, user_id) ELSE J

delete_author_db_json(J, user_id, author) ==
    LET author_id == slugify(author)
    IN  IF user_id \in DOMAIN J /\ author_id \in DOMAIN J[user_id]
        THEN Put(J, user_id, Remove(J[user_id], author_id))
        ELSE J

delete_poem_db_json(J, user_id, author, title) ==
    LET author_id == slugify(author)
        title_id == slugify(title)
    IN  IF /\ user_id \in DOMAIN J
           /\ author_id \in DOMAIN J[user_id]
           /\ title_id \in DOMAIN J[user_id][author_id].poems
        THEN Put(J, user_id, Put(J[user_id], author_id,
                 [J[user_id][author_id] EXCEPT !.poems = Remove(@, title_id)]))
        ELSE J

-----------------------------------------------------------------------------
(* Sequential store model: one caller, every call runs to completion.      *)
(* Each call is made on the relational store and on the JSON store.        *)

CurrentDB == DB(users, authors, poems, users_id_seq, authors_id_seq)

SetDB(D) ==
    /\ users' = D.users
    /\ authors' = D.authors
    /\ poems' = D.poems
    /\ users_id_seq' = D.users_id_seq
    /\ authors_id_seq' = D.authors_id_seq

NoCall == [op |-> "none"]

Idle == /\ pc = EmptyMap /\ req = EmptyMap /\ json_ok = TRUE
        /\ user_sessions = EmptyMap /\ user_data = EmptyMap
        /\ temp_dir = EmptyMap /\ uuid_seq = 0

Init ==
    /\ users = init_db.users
    /\ authors = init_db.authors
    /\ poems = init_db.poems
    /\ users_id_seq = init_db.users_id_seq
    /\ authors_id_seq = init_db.authors_id_seq
    /\ poems_json = EmptyMap
    /\ now = 0
    /\ last = NoCall
    /\ prev = NoCall
    /\ ops = 0
    /\ Idle

PoemDicts ==
    {PoemDict(u, a, t, x, RequestIdOf(ops + 1)) :
        u \in UserIds, a \in AuthorNames, t \in Titles, x \in Texts}

\* payloads whose user_id is missing (None) or empty
NoUserDicts ==
    {PoemDict(u, <<"P", "o">>, <<"H", "o", "p", "e">>, <<"v", "1">>,
              RequestIdOf(ops + 1)) : u \in {NoneVal, <<>>}}

\* Upsert: upload_to_db(poem_dict) on both stores
Upload(d) ==
    /\ ops < MaxOps
    /\ LET r == upload_to_db(CurrentDB, d, now)
           j == upload_to_db_json(poems_json, d, now)
       IN  /\ SetDB(r.db)
           /\ poems_json' = j.db
           /\ last' = [op |-> "upload_to_db", args |-> d, raised |-> r.raised,
                       poem_url |-> r.poem_url, poem_url_json |-> j.poem_url]
    /\ prev' = last
    /\ ops' = ops + 1
    /\ UNCHANGED <<now, concvars, botvars>>

\* DeleteUser: delete_user_db(user_id) on both stores
DeleteUser(u) ==
    /\ ops < MaxOps
    /\ SetDB(delete_user_db(CurrentDB, u))
    /\ poems_json' = delete_user_db_json(poems_json, u)
    /\ last' = [op |-> "delete_user_db", user_id |-> u]
    /\ prev' = last
    /\ ops' = ops + 1
    /\ UNCHANGED <<now, concvars, botvars>>

\* DeleteAuthor: delete_author_db(user_id, author) on both stores
DeleteAuthor(u, a) ==
    /\ ops < MaxOps
    /\ SetDB(delete_author_db(CurrentDB, u, a))
    /\ poems_json' = delete_author_db_json(poems_json, u, a)
    /\ last' = [op |-> "delete_author_db", user_id |-> u, author |-> a]
    /\ prev' = last
    /\ ops' = ops + 1
    /\ UNCHANGED <<now, concvars, botvars>>

\* DeletePoem: delete_poem_db(user_id, author, title) on both stores
DeletePoem(u, a, t) ==
    /\ ops < MaxOps
    /\ SetDB(delete_poem_db(CurrentDB, u, a, t))
    /\ poems_json' = delete_poem_db_json(poems_json, u, a, t)
    /\ last' = [op |-> "delete_poem_db", user_id |-> u, author |-> a,
                title |-> t]
    /\ prev' = last
    /\ ops' = ops + 1
    /\ UNCHANGED <<now, concvars, botvars>>

\* a second passes on the wall clock
Tick ==
    /\ now < MaxClock
    /\ now' = now + 1
    /\ UNCHANGED <<dbvars, poems_json, last, prev, ops, concvars, botvars>>

Next ==
    \/ \E d \in PoemDicts : Upload(d)
    \/ \E u \in UserIds : DeleteUser(u)
    \/ \E u \in UserIds, a \in AuthorNames : DeleteAuthor(u, a)
    \/ \E u \in UserIds, a \in AuthorNames, t \in Titles : DeletePoem(u, a, t)
    \/ Tick

Spec == Init /\ [][Next]_vars

\* the sequential store model called with any payload, a payload without a
\* user id included
AnyPayloadNext ==
    \/ Next
    \/ \E d \in NoUserDicts : Upload(d)

AnyPayloadSpec == Init /\ [][AnyPayloadNext]_vars

-----------------------------------------------------------------------------
(* Properties of the sequential store model *)

\* the poems rows stored under (user_id, author_slug, title_slug)
PoemRows(D, user_id, author_slug, title_slug) ==
    {p \in D.poems : /\ p.title_slug = title_slug
                     /\ \E a \in D.authors, u \in D.users :
                            /\ a.id = p.author_id /\ a.author_slug = author_slug
                            /\ u.id = a.user_id /\ u.user_id = user_id}

\* the authors rows stored under (user_id, author_slug)
AuthorRows(D, user_id, author_slug) ==
    {a \in D.authors : /\ a.author_slug = author_slug
                       /\ \E u \in D.users :
                              u.id = a.user_id /\ u.user_id = user_id}

\* the poems rows of all authors stored under (user_id, author_slug)
AuthorPoemRows(D, user_id, author_slug) ==
    {p \in D.poems :
        \E a \in AuthorRows(D, user_id, author_slug) : a.id = p.author_id}

\* number of poems the JSON store holds under (user_id, author_id)
JsonPoemCount(J, user_id, author_id) ==
    IF user_id \in DOMAIN J /\ author_id \in DOMAIN J[user_id]
    THEN Cardinality(DOMAIN J[user_id][author_id].poems)
    ELSE 0

\* the texts the JSON store holds under (user_id, author_id, title_id)
JsonTexts(J, user_id, author_id, title_id) ==
    IF /\ user_id \in DOMAIN J
       /\ author_id \in DOMAIN J[user_id]
       /\ title_id \in DOMAIN J[user_id][author_id].poems
    THEN {J[user_id][author_id].poems[title_id].poem}
    ELSE {}

\* this step is an Upsert of the (user, author, title) of the Upsert made just
\* before it, with another text
SecondUpsertStep ==
    /\ ops' = ops + 1
    /\ last.op = "upload_to_db" /\ last'.op = "upload_to_db"
    /\ last'.args.user_id = last.args.user_id
    /\ last'.args.author = last.args.author
    /\ last'.args.title = last.args.title
    /\ last'.args.text # last.args.text

\* after the second Upsert: one poem under the key, holding text, and as many
\* poems under the author as before, in both stores
OnePoemWithText(text) ==
    LET u == last'.args.user_id
        as == slugify(last'.args.author)
        ts == slugify(last'.args.title)
    IN  /\ Cardinality(PoemRows(CurrentDB', u, as, ts)) = 1
        /\ \A p \in PoemRows(CurrentDB', u, as, ts) : p.poem = text
        /\ Cardinality(AuthorPoemRows(CurrentDB', u, as))
              = Cardinality(AuthorPoemRows(CurrentDB, u, as))
        /\ JsonTexts(poems_json', u, as, ts) = {text}
        /\ JsonPoemCount(poems_json', u, as) = JsonPoemCount(poems_json, u, as)

\* C1 as stated: Upsert(user, author, title, t1) followed by
\* Upsert(user, author, title, t2), t1 # t2, leaves exactly one Poem under
\* (user, slug(author), slug(title)) whose text is t2, and the second call does
\* not grow the number of Poems under the author.
C1_TextIsSecond ==
    [][SecondUpsertStep => OnePoemWithText(last'.args.text)]_vars

\* C1 (amended): as above, the stored text being t2 with its leading and
\* trailing whitespace removed.
C1_TextIsSecondStripped ==
    [][SecondUpsertStep => OnePoemWithText(Strip(last'.args.text))]_vars

\* two Upserts of one (user, author, title) with different texts were made
C1_Witness ==
    /\ prev.op = "upload_to_db" /\ last.op = "upload_to_db"
    /\ prev.args.user_id = last.args.user_id
    /\ prev.args.author = last.args.author
    /\ prev.args.title = last.args.title
    /\ prev.args.text # last.args.text
    /\ PoemRows(CurrentDB, last.args.user_id, slugify(last.args.author),
                slugify(last.args.title)) # {}

AuthorSlugs == {slugify(a) : a \in AuthorNames}
TitleSlugs == {slugify(t) : t \in Titles}

\* C3: after DeleteUser(u) no Author and no Poem scoped to u remains:
\* GetPoemsByUser(u) is the empty mapping and GetPoem(u, a, t) is NotFound for
\* every a and t, in both stores, and no row is left without its parent.
C3_DeleteUserCascades ==
    last.op = "delete_user_db" =>
        /\ DOMAIN get_poems_by_user(CurrentDB, last.user_id) = {}
        /\ \A as \in AuthorSlugs, ts \in TitleSlugs :
               get_poem(CurrentDB, last.user_id, as, ts) = {}
        /\ SelectUser(CurrentDB, last.user_id) = {}
        /\ \A a \in authors : \E u \in users : u.id = a.user_id
        /\ \A p \in poems : \E a \in authors : a.id = p.author_id
        /\ DOMAIN get_poems_by_user_json(poems_json, last.user_id) = {}

\* a user with a stored poem was deleted
C3_Witness ==
    /\ last.op = "delete_user_db"
    /\ prev.op = "upload_to_db"
    /\ prev.args.user_id = last.user_id

\* the two last calls are Upserts of one user under author names x, y with
\* slug(x) = slug(y)
SameSlugUpserts ==
    /\ prev.op = "upload_to_db" /\ last.op = "upload_to_db"
    /\ prev.args.user_id = last.args.user_id
    /\ slugify(prev.args.author) = slugify(last.args.author)

\* one Author row (entry) under (user, slug) in both stores, named name, with
\* the poems of both Upserts under it
OneAuthorNamed(name) ==
    LET u == last.args.user_id
        as == slugify(last.args.author)
        rows == AuthorRows(CurrentDB, u, as)
    IN  /\ Cardinality(rows) = 1
        /\ \A a \in rows : a.author = name
        /\ \A d \in {prev.args, last.args} :
               /\ PoemRows(CurrentDB, u, as, slugify(d.title)) # {}
               /\ \A p \in PoemRows(CurrentDB, u, as, slugify(d.title)) :
                      \E a \in rows : a.id = p.author_id
               /\ JsonTexts(poems_json, u, as, slugify(d.title)) # {}
        /\ poems_json[u][as].author = name

\* C9 as stated: upserting under x and then under y, slug(x) = slug(y), leaves
\* exactly one Author row for (user, slug(x)) whose display name is y, and both
\* upserts' poems hang under it.
C9_DisplayNameIsLast == SameSlugUpserts => OneAuthorNamed(last.args.author)

\* C9 (amended): as above, the display name being y with its leading and
\* trailing whitespace removed.
C9_DisplayNameIsLastStripped ==
    SameSlugUpserts => OneAuthorNamed(Strip(last.args.author))

\* two Upserts under different names with one slug were made
C9_Witness ==
    /\ SameSlugUpserts
    /\ prev.args.author # last.args.author
    /\ Strip(prev.args.author) # Strip(last.args.author)
    /\ prev.args.title # last.args.title

-----------------------------------------------------------------------------
(* Concurrent store model: the API serves requests in parallel, each        *)
(* get_db_cursor() block of src/api/utils/db_utils.py is one transaction   *)
(* (READ COMMITTED), and upload_to_db runs three of them one after another. *)
(* A request is at one of these positions:                                  *)
(*   "idle"                 no request                                      *)
(*   "ensure_user"          before the SELECT of ensure_user                *)
(*   "ensure_user_insert"   the SELECT found no user, before the INSERT     *)
(*   "ensure_author"        before the SELECT of ensure_author              *)
(*   "ensure_author_update" the SELECT found the author, before the UPDATE  *)
(*   "ensure_author_insert" the SELECT found no author, before the INSERT   *)
(*   "upsert_poem"          before the INSERT ... ON CONFLICT               *)
(*   "done"                 answered, with req[p].status                    *)

Procs == {1, 2}

\* the id a local variable holds before it is assigned / when fetchone()
\* returned None
NoRow == 0

NoReq == [op |-> "none"]

ConcInit ==
    /\ users = init_db.users
    /\ authors = init_db.authors
    /\ poems = init_db.poems
    /\ users_id_seq = init_db.users_id_seq
    /\ authors_id_seq = init_db.authors_id_seq
    /\ poems_json = EmptyMap
    /\ now = 0
    /\ last = NoCall
    /\ prev = NoCall
    /\ ops = 0
    /\ pc = [p \in Procs |-> "idle"]
    /\ req = [p \in Procs |-> NoReq]
    /\ json_ok = TRUE
    /\ user_sessions = EmptyMap /\ user_data = EmptyMap
    /\ temp_dir = EmptyMap /\ uuid_seq = 0

ConcPoemDicts ==
    {PoemDict(u, a, t, <<"v", "1">>, RequestIdOf(ops + 1)) :
        u \in {MAIN_USER_ID}, a \in AuthorNames, t \in Titles}

ConcFrame == UNCHANGED <<poems_json, json_ok, now, last, prev, botvars>>

\* api_upload_poem receives a payload and calls upload_to_db (lines 148-155)
StartUpload(p, d) ==
    /\ pc[p] = "idle"
    /\ ops < MaxRequests
    /\ ops' = ops + 1
    /\ req' = [req EXCEPT ![p] =
                  [op |-> "upload_to_db", user_id |-> d.user_id,
                   author |-> Strip(d.author), title |-> Strip(d.title),
                   text |-> Strip(d.text), request_id |-> Strip(d.request_id),
                   user |-> NoRow, user_db_id |-> NoRow,
                   author_row |-> NoRow, author_db_id |-> NoRow,
                   status |-> 0, poem_url |-> <<>>]]
    /\ pc' = [pc EXCEPT ![p] = "ensure_user"]
    /\ UNCHANGED dbvars
    /\ ConcFrame

\* the exception of a statement or of psycopg2.connect leaves upload_to_db and
\* api_upload_poem answers 500 (src/api/app.py:266-270)
Raise(p) ==
    /\ req' = [req EXCEPT ![p].status = 500]
    /\ pc' = [pc EXCEPT ![p] = "done"]

\* ensure_user, lines 87-90: SELECT id FROM users; return user['id'] if found
EnsureUserSelect(p) ==
    /\ pc[p] = "ensure_user"
    /\ LET user == SelectUser(CurrentDB, req[p].user_id)
       IN  \/ /\ user = {}
              /\ pc' = [pc EXCEPT ![p] = "ensure_user_insert"]
              /\ UNCHANGED req
           \/ \E u \in user :
                 /\ req' = [req EXCEPT ![p].user = u.id,
                                       ![p].user_db_id = u.id]
                 /\ pc' = [pc EXCEPT ![p] = "ensure_author"]
    /\ UNCHANGED <<dbvars, ops>>
    /\ ConcFrame

\* ensure_user, lines 91-95: INSERT INTO users and commit; users.user_id is
\* UNIQUE, so the INSERT raises when the user was inserted in the meantime
EnsureUserInsert(p) ==
    /\ pc[p] = "ensure_user_insert"
    /\ IF SelectUser(CurrentDB, req[p].user_id) # {}
       THEN /\ Raise(p)
            /\ UNCHANGED dbvars
       ELSE /\ SetDB(InsertUser(CurrentDB, req[p].user_id))
            /\ req' = [req EXCEPT ![p].user_db_id = users_id_seq]
            /\ pc' = [pc EXCEPT ![p] = "ensure_author"]
    /\ UNCHANGED ops
    /\ ConcFrame

\* ensure_author, lines 109-116: SELECT id FROM authors
EnsureAuthorSelect(p) ==
    /\ pc[p] = "ensure_author"
    /\ LET author == SelectAuthor(CurrentDB, req[p].user_db_id,
                                  slugify(req[p].author))
       IN  \/ /\ author = {}
              /\ pc' = [pc EXCEPT ![p] = "ensure_author_insert"]
              /\ UNCHANGED req
           \/ \E a \in author :
                 /\ req' = [req EXCEPT ![p].author_row = a.id]
                 /\ pc' = [pc EXCEPT ![p] = "ensure_author_update"]
    /\ UNCHANGED <<dbvars, ops>>
    /\ ConcFrame

\* ensure_author, lines 117-122: UPDATE authors SET author, commit and return
\* author['id'] (the UPDATE changes no row when the row is gone)
EnsureAuthorUpdate(p) ==
    /\ pc[p] = "ensure_author_update"
    /\ SetDB(UpdateAuthor(CurrentDB, req[p].author_row, req[p].author))
    /\ req' = [req EXCEPT ![p].author_db_id = req[p].author_row]
    /\ pc' = [pc EXCEPT ![p] = "upsert_poem"]
    /\ UNCHANGED ops
    /\ ConcFrame

\* ensure_author, lines 123-130: INSERT INTO authors and commit; authors has
\* no UNIQUE constraint, only the foreign key to users
EnsureAuthorInsert(p) ==
    /\ pc[p] = "ensure_author_insert"
    /\ IF \E u \in users : u.id = req[p].user_db_id
       THEN /\ SetDB(InsertAuthor(CurrentDB, req[p].user_db_id,
                                  slugify(req[p].author), req[p].author))
            /\ req' = [req EXCEPT ![p].author_db_id = authors_id_seq]
            /\ pc' = [pc EXCEPT ![p] = "upsert_poem"]
       ELSE /\ Raise(p)
            /\ UNCHANGED dbvars
    /\ UNCHANGED ops
    /\ ConcFrame

\* upload_to_db, lines 160-186: INSERT INTO poems ... ON CONFLICT and commit;
\* the foreign key to authors makes it raise when the author row is gone;
\* api_upload_poem answers 201 with the URL
UpsertPoemStep(p) ==
    /\ pc[p] = "upsert_poem"
    /\ IF \E a \in authors : a.id = req[p].author_db_id
       THEN /\ SetDB(UpsertPoem(CurrentDB, req[p].author_db_id,
                                slugify(req[p].title), req[p].title,
                                req[p].text,
                                PoemUrl(req[p].user_id, req[p].author,
                                        req[p].title),
                                req[p].request_id, now))
            /\ req' = [req EXCEPT ![p].status = 201,
                                  ![p].poem_url = PoemUrl(req[p].user_id,
                                      req[p].author, req[p].title)]
            /\ pc' = [pc EXCEPT ![p] = "done"]
       ELSE /\ Raise(p)
            /\ UNCHANGED dbvars
    /\ UNCHANGED ops
    /\ ConcFrame

\* get_db_cursor, line 28: psycopg2.connect raises (database unreachable)
\* when a transaction is about to start
ConnectFails(p) ==
    /\ pc[p] \in {"ensure_user", "ensure_author", "upsert_poem"}
    /\ Raise(p)
    /\ UNCHANGED <<dbvars, ops>>
    /\ ConcFrame

\* api_delete_all: delete_user_db in one transaction, answered 200
ConcDeleteUser(p, u) ==
    /\ pc[p] = "idle"
    /\ ops < MaxRequests
    /\ ops' = ops + 1
    /\ SetDB(delete_user_db(CurrentDB, u))
    /\ req' = [req EXCEPT ![p] = [op |-> "delete_user_db", user_id |-> u,
                                  status |-> 200]]
    /\ pc' = [pc EXCEPT ![p] = "done"]
    /\ ConcFrame

\* api_delete_author: delete_author_db in one transaction, answered 200
ConcDeleteAuthor(p, u, a) ==
    /\ pc[p] = "idle"
    /\ ops < MaxRequests
    /\ ops' = ops + 1
    /\ SetDB(delete_author_db(CurrentDB, u, a))
    /\ req' = [req EXCEPT ![p] = [op |-> "delete_author_db", user_id |-> u,
                                  author |-> a, status |-> 200]]
    /\ pc' = [pc EXCEPT ![p] = "done"]
    /\ ConcFrame

\* the response is delivered and the worker takes the next request
Respond(p) ==
    /\ pc[p] = "done"
    /\ pc' = [pc EXCEPT ![p] = "idle"]
    /\ req' = [req EXCEPT ![p] = NoReq]
    /\ UNCHANGED <<dbvars, ops>>
    /\ ConcFrame

ConcNext ==
    \/ \E p \in Procs, d \in ConcPoemDicts : StartUpload(p, d)
    \/ \E p \in Procs : EnsureUserSelect(p)
    \/ \E p \in Procs : EnsureUserInsert(p)
    \/ \E p \in Procs : EnsureAuthorSelect(p)
    \/ \E p \in Procs : EnsureAuthorUpdate(p)
    \/ \E p \in Procs : EnsureAuthorInsert(p)
    \/ \E p \in Procs : UpsertPoemStep(p)
    \/ \E p \in Procs : ConnectFails(p)
    \/ \E p \in Procs : ConcDeleteUser(p, MAIN_USER_ID)
    \/ \E p \in Procs, a \in AuthorNames : ConcDeleteAuthor(p, MAIN_USER_ID, a)
    \/ \E p \in Procs : Respond(p)

ConcSpec == ConcInit /\ [][ConcNext]_vars

\* C2: Upsert is all-or-nothing: an Upsert that failed (one of its steps
\* raised, or another request ran between its steps and made one raise) has
\* left no User row and no Author row that it created in the committed store.
C2_FailedUpsertLeavesNothing ==
    \A p \in Procs :
        (pc[p] = "done" /\ req[p].op = "upload_to_db" /\ req[p].status = 500)
        => /\ ~(req[p].user = NoRow
                /\ \E u \in users : u.id = req[p].user_db_id)
           /\ ~(req[p].author_row = NoRow
                /\ \E a \in authors : a.id = req[p].author_db_id)

\* C10: in every reachable state of the store, also when Upserts of concurrent
\* callers interleave, there is at most one Author row per (user, author_slug).
C10_AuthorSlugUnique ==
    \A a1, a2 \in authors :
        (a1.user_id = a2.user_id /\ a1.author_slug = a2.author_slug) => a1 = a2

\* both workers have answered 201 to an Upsert of the same
\* (user, author_slug, title_slug)
BothUpsertedSameKey ==
    /\ \A p \in Procs :
          /\ pc[p] = "done"
          /\ req[p].op = "upload_to_db"
          /\ req[p].status = 201
    /\ \A p, q \in Procs :
          /\ req[p].user_id = req[q].user_id
          /\ slugify(req[p].author) = slugify(req[q].author)
          /\ slugify(req[p].title) = slugify(req[q].title)

\* every record a reader gets for the key of request w is the one w wrote
ReadsAllFrom(w) ==
    LET got == get_poem(CurrentDB, req[w].user_id, slugify(req[w].author),
                        slugify(req[w].title))
    IN  /\ got # {}
        /\ \A g \in got :
              /\ g.author = req[w].author
              /\ g.title = req[w].title
              /\ g.poem = req[w].text
              /\ g.request_id = req[w].request_id
              /\ g.poem_url = PoemUrl(req[w].user_id, req[w].author,
                                      req[w].title)

\* C11: when two Upserts to the same (user, author_slug, title_slug) run
\* concurrently, every field a reader gets back for that poem (author display
\* name, title, text, URL, request id) comes from one and the same writer; no
\* state mixes one writer's display name with the other writer's poem fields.
\* (stated for the states with a single Author row per key, where the reader
\* gets one record.)
C11_LastWriterWins ==
    (BothUpsertedSameKey /\ Cardinality(authors) = 1)
    => \E w \in Procs : ReadsAllFrom(w)

-----------------------------------------------------------------------------
(* Concurrent JSON-file store: src/app.py serves its requests in threads    *)
(* (Flask's app.run) and every call of src/utils/db_utils.py reads and      *)
(* rewrites the whole of poems.json without a lock. upload_poems opens the  *)
(* file with mode "w", which truncates it, and json.dump then writes the    *)
(* document from offset 0. poems_json is the last complete document written *)
(* and json_ok tells whether the file holds it now. A request is at:        *)
(*   "idle"        no request                                               *)
(*   "json_load"   before load_poems                                        *)
(*   "json_open"   the new dictionary is computed, before open(DB_PATH,"w") *)
(*   "json_dump"   the file was truncated, json.dump has not written        *)
(*   "done"        returned                                                 *)

\* load_poems: json.load of the file, {} on json.JSONDecodeError
load_poems == IF json_ok THEN poems_json ELSE EmptyMap

JsonPoemDicts ==
    {PoemDict(MAIN_USER_ID, <<"P", "o">>, t, <<"v", "1">>, RequestIdOf(ops + 1)) :
        t \in Titles}

JsonFrame == UNCHANGED <<dbvars, now, last, prev, botvars>>

\* a request arrives: upload_to_db(poem_dict), delete_user_db(user_id) or
\* get_poems_by_user(user_id)
JsonStart(p, op, d) ==
    /\ pc[p] = "idle"
    /\ ops < MaxJsonCalls
    /\ ops' = ops + 1
    /\ req' = [req EXCEPT ![p] = [op |-> op, arg |-> d, poems |-> EmptyMap,
                                  before |-> EmptyMap, during |-> {}]]
    /\ pc' = [pc EXCEPT ![p] = "json_load"]
    /\ UNCHANGED <<poems_json, json_ok>>
    /\ JsonFrame

\* upload_to_db, lines 41-75: load_poems() and the update of the dictionary
JsonUploadLoad(p) ==
    /\ pc[p] = "json_load" /\ req[p].op = "upload_to_db"
    /\ req' = [req EXCEPT ![p].poems =
                  upload_to_db_json(load_poems, req[p].arg, now).db]
    /\ pc' = [pc EXCEPT ![p] = "json_open"]
    /\ UNCHANGED <<poems_json, json_ok, ops>>
    /\ JsonFrame

\* delete_user_db, lines 130-131: load_poems() and poems.pop(user_id); the
\* file is written only when the user was there
JsonDeleteLoad(p) ==
    /\ pc[p] = "json_load" /\ req[p].op = "delete_user_db"
    /\ req' = [req EXCEPT ![p].poems =
                  delete_user_db_json(load_poems, req[p].arg)]
    /\ pc' = [pc EXCEPT ![p] = IF req[p].arg \in DOMAIN load_poems
                                THEN "json_open" ELSE "done"]
    /\ UNCHANGED <<poems_json, json_ok, ops>>
    /\ JsonFrame

\* upload_poems, line 91: open(DB_PATH, "w") truncates the file
JsonOpen(p) ==
    /\ pc[p] = "json_open"
    /\ json_ok' = FALSE
    /\ pc' = [pc EXCEPT ![p] = "json_dump"]
    /\ UNCHANGED <<poems_json, req, ops>>
    /\ JsonFrame

\* upload_poems, line 92: json.dump writes the document from offset 0 and the
\* file is closed. When another writer has written a different document since
\* this one opened the file, the bytes of that document beyond the end of
\* this one remain: the file holds this document, or no JSON document,
\* depending on the two lengths.
JsonDump(p) ==
    /\ pc[p] = "json_dump"
    /\ \/ /\ poems_json' = req[p].poems
          /\ json_ok' = TRUE
       \/ /\ json_ok /\ poems_json # req[p].poems
          /\ json_ok' = FALSE
          /\ UNCHANGED poems_json
    /\ pc' = [pc EXCEPT ![p] = "done"]
    /\ UNCHANGED <<req, ops>>
    /\ JsonFrame

\* get_poems_by_user, lines 122-123: load_poems() and poems.get(user_id, {});
\* before and during are what the read may return according to the claim: the
\* user's records in the last complete document and in the documents being
\* written
JsonRead(p) ==
    /\ pc[p] = "json_load" /\ req[p].op = "get_poems_by_user"
    /\ req' = [req EXCEPT
                  ![p].poems = get_poems_by_user_json(load_poems, req[p].arg),
                  ![p].before = get_poems_by_user_json(poems_json, req[p].arg),
                  ![p].during =
                      {get_poems_by_user_json(req[q].poems, req[p].arg) :
                          q \in {q \in Procs : pc[q] = "json_dump"}}]
    /\ pc' = [pc EXCEPT ![p] = "done"]
    /\ UNCHANGED <<poems_json, json_ok, ops>>
    /\ JsonFrame

\* the call has returned and the thread takes the next request
JsonReturn(p) ==
    /\ pc[p] = "done"
    /\ pc' = [pc EXCEPT ![p] = "idle"]
    /\ req' = [req EXCEPT ![p] = NoReq]
    /\ UNCHANGED <<poems_json, json_ok, ops>>
    /\ JsonFrame

JsonNext ==
    \/ \E p \in Procs, d \in JsonPoemDicts : JsonStart(p, "upload_to_db", d)
    \/ \E p \in Procs : JsonStart(p, "delete_user_db", MAIN_USER_ID)
    \/ \E p \in Procs : JsonStart(p, "get_poems_by_user", MAIN_USER_ID)
    \/ \E p \in Procs : JsonUploadLoad(p)
    \/ \E p \in Procs : JsonDeleteLoad(p)
    \/ \E p \in Procs : JsonOpen(p)
    \/ \E p \in Procs : JsonDump(p)
    \/ \E p \in Procs : JsonRead(p)
    \/ \E p \in Procs : JsonReturn(p)

JsonSpec == ConcInit /\ [][JsonNext]_vars

\* the JSON store serving writes of two users at once
JsonUserDicts ==
    {PoemDict(u, <<"P", "o">>, <<"H", "o", "p", "e">>, <<"v", "1">>,
              RequestIdOf(ops + 1)) : u \in UserIds}

JsonUsersNext ==
    \/ \E p \in Procs, d \in JsonUserDicts : JsonStart(p, "upload_to_db", d)
    \/ \E p \in Procs, u \in UserIds : JsonStart(p, "delete_user_db", u)
    \/ \E p \in Procs : JsonUploadLoad(p)
    \/ \E p \in Procs : JsonDeleteLoad(p)
    \/ \E p \in Procs : JsonOpen(p)
    \/ \E p \in Procs : JsonDump(p)
    \/ \E p \in Procs : JsonReturn(p)

JsonUsersSpec == ConcInit /\ [][JsonUsersNext]_vars

\* C12: a read that runs concurrently with an Upsert or a Delete returns, for
\* each poem, the complete record before the write or the complete record
\* after it, never a store that appears empty or truncated because a write was
\* in progress: what get_poems_by_user returned is the user's mapping in the
\* document before the write or in the document being written.
C12_ReadSeesBeforeOrAfter ==
    \A p \in Procs :
        (pc[p] = "done" /\ req[p].op = "get_poems_by_user")
        => req[p].poems \in {req[p].before} \cup req[p].during

-----------------------------------------------------------------------------
(* The capture sessions of the Telegram bot: src/bot/main.py               *)
(* The bot handles one update at a time (the Application is built without   *)
(* concurrent_updates), so a handler runs to completion before the next.   *)
(* S is the record of user_sessions, user_data, the directories under       *)
(* TEMP_DIR and the number of ids uuid4 has produced.                       *)

MAX_IMAGES == 2

\* ALLOWED_USER_ID.split(",")
ALLOWED_USER_ID == {<<"4", "2">>, <<"7">>}

DigitChar == <<"0", "1", "2", "3", "4", "5", "6", "7", "8", "9">>

RECURSIVE Str(_)
\* str(n) of a non-negative integer
Str(n) ==
    IF n < 10 THEN <<DigitChar[n + 1]>>
    ELSE Str(n \div 10) \o <<DigitChar[(n % 10) + 1]>>

\* f"{n:03d}"
Pad3(n) ==
    LET d == Str(n)
    IN  [i \in 1..(3 - Len(d)) |-> "0"] \o d

EndsWith(f, suffix) ==
    /\ Len(f) >= Len(suffix)
    /\ SubSeq(f, Len(f) - Len(suffix) + 1, Len(f)) = suffix

\* f.lower().endswith((".jpg", ".jpeg", ".png")); the bot only creates names
\* made of digits, "." and lowercase letters
IsImageName(f) ==
    \/ EndsWith(f, <<".", "j", "p", "g">>)
    \/ EndsWith(f, <<".", "j", "p", "e", "g">>)
    \/ EndsWith(f, <<".", "p", "n", "g">>)

\* an id generator that returns the same id every time
Uuid_Constant(n) == <<"i", "d", "-">> \o Str(0)

\* uuid.uuid4().hex[:16]: the n-th id generated, different from all others
Uuid(n) == <<"i", "d", "-">> \o Str(n)

\* " ".join(context.args): the words of the text after the command
JoinArgs(text) ==
    TrimSep([i \in 1..Len(text) |->
                IF text[i] \in Whitespace THEN " " ELSE text[i]], " ")

Sessions(us, ud, td, n) ==
    [user_sessions |-> us, user_data |-> ud, temp_dir |-> td, uuid_seq |-> n]

CurrentSessions == Sessions(user_sessions, user_data, temp_dir, uuid_seq)

SetSessions(S) ==
    /\ user_sessions' = S.user_sessions
    /\ user_data' = S.user_data
    /\ temp_dir' = S.temp_dir
    /\ uuid_seq' = S.uuid_seq

\* a draft created with no author at all
DefaultDraft_NoAuthor == [author |-> NoneVal, title |-> NoneVal, text |-> NoneVal]

\* {"author": "Unknown", "title": None, "text": None}
DefaultDraft ==
    [author |-> <<"U", "n", "k", "n", "o", "w", "n">>, title |-> NoneVal,
     text |-> NoneVal]

\* delete_user_session without the shutil.rmtree
delete_user_session_KeepDir(S, user_id) ==
    [S EXCEPT !.user_sessions = Remove(@, user_id),
              !.user_data = Remove(@, user_id)]

\* delete_user_session: pop both maps and remove the directory
delete_user_session(S, user_id) ==
    LET rid == IF user_id \in DOMAIN S.user_sessions
               THEN S.user_sessions[user_id] ELSE NoneVal
    IN  [S EXCEPT !.user_sessions = Remove(@, user_id),
                  !.user_data = Remove(@, user_id),
                  !.temp_dir = IF Truthy(rid) THEN Remove(@, rid) ELSE @]

\* create_session without the delete_user_session of the existing session
create_session_KeepOld(S, user_id) ==
    LET request_id == Uuid(S.uuid_seq + 1)
    IN  [user_sessions |-> Put(S.user_sessions, user_id, request_id),
         user_data |-> Put(S.user_data, user_id, DefaultDraft),
         temp_dir |-> IF request_id \in DOMAIN S.temp_dir THEN S.temp_dir
                      ELSE Put(S.temp_dir, request_id, {}),
         uuid_seq |-> S.uuid_seq + 1]

\* create_session: a fresh id, the old session deleted, the directory made
\* (exist_ok) and the maps initialised
create_session(S, user_id) ==
    LET request_id == Uuid(S.uuid_seq + 1)
        D == delete_user_session(S, user_id)
    IN  [user_sessions |-> Put(D.user_sessions, user_id, request_id),
         user_data |-> Put(D.user_data, user_id, DefaultDraft),
         temp_dir |-> IF request_id \in DOMAIN D.temp_dir THEN D.temp_dir
                      ELSE Put(D.temp_dir, request_id, {}),
         uuid_seq |-> S.uuid_seq + 1]

\* a session created whether or not the user has one
EnsureSession_AlwaysNew(S, user_id) == create_session(S, user_id)

\* request_id = user_sessions.get(user_id); if not request_id: create_session
EnsureSession(S, user_id) ==
    IF user_id \in DOMAIN S.user_sessions /\ Truthy(S.user_sessions[user_id])
    THEN S ELSE create_session(S, user_id)

BotInit ==
    /\ users = init_db.users
    /\ authors = init_db.authors
    /\ poems = init_db.poems
    /\ users_id_seq = init_db.users_id_seq
    /\ authors_id_seq = init_db.authors_id_seq
    /\ poems_json = EmptyMap
    /\ now = 0
    /\ last = NoCall
    /\ prev = NoCall
    /\ ops = 0
    /\ pc = EmptyMap /\ req = EmptyMap /\ json_ok = TRUE
    /\ user_sessions = EmptyMap
    /\ user_data = EmptyMap
    /\ temp_dir = EmptyMap
    /\ uuid_seq = 0

BotUsers == {42, 7, 9}

BotFrame == UNCHANGED <<poems_json, now, prev, concvars>>

\* what a handler leaves behind: the reply sent to the user and the payloads
\* posted to the API
Reply(op, user_id, key, sent) ==
    /\ last' = [op |-> op, user |-> user_id, reply |-> key, sent |-> sent]
    /\ ops' = ops + 1

\* restricted_command: str(user_id) not in ALLOWED_USER_ID.split(",")
Allowed(user_id) == Str(user_id) \in ALLOWED_USER_ID

Unauthorized(user_id) ==
    /\ ops < MaxUpdates
    /\ ~Allowed(user_id)
    /\ Reply("restricted_command", user_id, "not_authorized", {})
    /\ UNCHANGED <<dbvars, botvars>>
    /\ BotFrame

StartArgs == {<<>>, <<"E", " ", " ", "D">>}

\* /start that stores the author without the `if not author` check
start_NoCheck(user_id, text) ==
    /\ ops < MaxUpdates
    /\ Allowed(user_id)
    /\ LET S == create_session(CurrentSessions, user_id)
           author == JoinArgs(text)
       IN  /\ SetSessions([S EXCEPT !.user_data[user_id].author = author])
           /\ Reply("start", user_id, "start_ok", {})
    /\ UNCHANGED dbvars
    /\ BotFrame

\* /start [author]
start(user_id, text) ==
    /\ ops < MaxUpdates
    /\ Allowed(user_id)
    /\ LET S == create_session(CurrentSessions, user_id)
           author == JoinArgs(text)
       IN  IF ~Truthy(author)
           THEN /\ SetSessions(S)
                /\ Reply("start", user_id, "start_incompleted", {})
           ELSE /\ SetSessions([S EXCEPT !.user_data[user_id].author = author])
                /\ Reply("start", user_id, "start_ok", {})
    /\ UNCHANGED dbvars
    /\ BotFrame

TitleArgs == {<<>>, <<"H", "o", "p", "e", " ">>}

\* /edittitle [title]
edittitle(user_id, text) ==
    /\ ops < MaxUpdates
    /\ Allowed(user_id)
    /\ LET S == EnsureSession(CurrentSessions, user_id)
           title == JoinArgs(text)
       IN  IF ~Truthy(title)
           THEN /\ SetSessions(S)
                /\ Reply("edittitle", user_id, "edittitle_incompleted", {})
           ELSE /\ SetSessions([S EXCEPT !.user_data[user_id].title = title])
                /\ Reply("edittitle", user_id, "edittitle_ok", {})
    /\ UNCHANGED dbvars
    /\ BotFrame

PoemArgs == {<<" ">>, <<"v", "1", "\n">>}

\* /editpoem without the `if not text` check
editpoem_NoCheck(user_id, rest) ==
    /\ ops < MaxUpdates
    /\ Allowed(user_id)
    /\ LET S == EnsureSession(CurrentSessions, user_id)
           text == Strip(rest)
       IN  /\ SetSessions([S EXCEPT !.user_data[user_id].text = text])
           /\ Reply("editpoem", user_id, "editpoem_ok", {})
    /\ UNCHANGED dbvars
    /\ BotFrame

\* /editpoem [text]: the message after the first space, stripped
editpoem(user_id, rest) ==
    /\ ops < MaxUpdates
    /\ Allowed(user_id)
    /\ LET S == EnsureSession(CurrentSessions, user_id)
           text == Strip(rest)
       IN  IF ~Truthy(text)
           THEN /\ SetSessions(S)
                /\ Reply("editpoem", user_id, "editpoem_incompleted", {})
           ELSE /\ SetSessions([S EXCEPT !.user_data[user_id].text = text])
                /\ Reply("editpoem", user_id, "editpoem_ok", {})
    /\ UNCHANGED dbvars
    /\ BotFrame

AuthorArgs == {<<>>, <<"e", "-", "d">>}

\* /editauthor [author]
editauthor(user_id, text) ==
    /\ ops < MaxUpdates
    /\ Allowed(user_id)
    /\ LET S == EnsureSession(CurrentSessions, user_id)
           author == Strip(JoinArgs(text))
       IN  IF ~Truthy(author)
           THEN /\ SetSessions(S)
                /\ Reply("editauthor", user_id, "editauthor_incompleted", {})
           ELSE /\ SetSessions([S EXCEPT !.user_data[user_id].author = author])
                /\ Reply("editauthor", user_id, "editauthor_ok", {})
    /\ UNCHANGED dbvars
    /\ BotFrame

\* /reset that forgets the session id and leaves the draft and the directory
reset_IdOnly(user_id) ==
    /\ ops < MaxUpdates
    /\ Allowed(user_id)
    /\ user_sessions' = Remove(user_sessions, user_id)
    /\ UNCHANGED <<user_data, temp_dir, uuid_seq>>
    /\ Reply("reset", user_id, "reset", {})
    /\ UNCHANGED dbvars
    /\ BotFrame

\* /reset
reset(user_id) ==
    /\ ops < MaxUpdates
    /\ Allowed(user_id)
    /\ SetSessions(delete_user_session(CurrentSessions, user_id))
    /\ Reply("reset", user_id, "reset", {})
    /\ UNCHANGED dbvars
    /\ BotFrame

ImageTypes == {"jpeg", "png", "gif"}

\* the capacity check with > in place of >=
AtCapacity_OffByOne(n) == n > MAX_IMAGES

\* if len(image_paths) >= MAX_IMAGES
AtCapacity(n) == n >= MAX_IMAGES

\* a photo arrives; detected_type is what imghdr.what finds in the download
handle_image(user_id, detected_type) ==
    /\ ops < MaxUpdates
    /\ Allowed(user_id)
    /\ LET S == EnsureSession(CurrentSessions, user_id)
           request_id == S.user_sessions[user_id]
           image_paths == {f \in S.temp_dir[request_id] : IsImageName(f)}
           image_index == Cardinality(image_paths) + 1
           extension == IF detected_type = "jpeg" THEN <<"j", "p", "g">>
                        ELSE <<"p", "n", "g">>
           final_path == Pad3(image_index) \o <<".">> \o extension
       IN  IF AtCapacity(Cardinality(image_paths))
           THEN /\ SetSessions(S)
                /\ Reply("handle_image", user_id, "image_max", {})
           ELSE IF detected_type \notin {"jpeg", "png"}
           THEN \* the .tmp download is removed again
                /\ SetSessions(S)
                /\ Reply("handle_image", user_id, "image_invalid", {})
           ELSE /\ SetSessions([S EXCEPT !.temp_dir[request_id] =
                                    @ \cup {final_path}])
                /\ Reply("handle_image", user_id,
                         IF image_index = MAX_IMAGES THEN "image_limit"
                         ELSE "image_ok", {})
    /\ UNCHANGED dbvars
    /\ BotFrame

\* what process_poem gives: an exception, or the (title, markdown) of
\* call_extractor: both None, or two stripped strings, each possibly empty
ExtractorResults ==
    {[raised |-> TRUE, poem_title |-> NoneVal, poem_text |-> NoneVal],
     [raised |-> FALSE, poem_title |-> NoneVal, poem_text |-> NoneVal],
     [raised |-> FALSE, poem_title |-> <<"O", "d", "e">>, poem_text |-> <<>>],
     [raised |-> FALSE, poem_title |-> <<>>, poem_text |-> <<"v", "2">>],
     [raised |-> FALSE, poem_title |-> <<"O", "d", "e">>,
      poem_text |-> <<"v", "2">>]}

\* no placeholder for a title the extractor did not find
Untitled_None == NoneVal

\* result.get("poem_title") or "Untitled"
Untitled == <<"U", "n", "t", "i", "t", "l", "e", "d">>

\* no placeholder for a text the extractor did not find
Empty_None == NoneVal

\* result.get("poem_text") or "Empty"
Empty == <<"E", "m", "p", "t", "y">>

\* /process that keeps a title the draft already has
process_KeepTitle(user_id, result) ==
    /\ ops < MaxUpdates
    /\ Allowed(user_id)
    /\ LET request_id == IF user_id \in DOMAIN user_sessions
                         THEN user_sessions[user_id] ELSE NoneVal
       IN  IF ~Truthy(request_id) \/ request_id \notin DOMAIN temp_dir
           THEN /\ Reply("process", user_id, "process_noimage", {})
                /\ UNCHANGED botvars
           ELSE IF {f \in temp_dir[request_id] : IsImageName(f)} = {}
           THEN /\ Reply("process", user_id, "process_imageerror", {})
                /\ UNCHANGED botvars
           ELSE IF result.raised
           THEN /\ Reply("process", user_id, "process_error", {})
                /\ UNCHANGED botvars
           ELSE /\ user_data' = [user_data EXCEPT ![user_id] =
                      [@ EXCEPT !.title = IF Truthy(@) THEN @
                                          ELSE IF Truthy(result.poem_title)
                                          THEN result.poem_title ELSE Untitled,
                                !.text = IF Truthy(result.poem_text)
                                         THEN result.poem_text ELSE Empty]]
                /\ Reply("process", user_id, "process_continue", {})
                /\ UNCHANGED <<user_sessions, temp_dir, uuid_seq>>
    /\ UNCHANGED dbvars
    /\ BotFrame

\* /process
process(user_id, result) ==
    /\ ops < MaxUpdates
    /\ Allowed(user_id)
    /\ LET request_id == IF user_id \in DOMAIN user_sessions
                         THEN user_sessions[user_id] ELSE NoneVal
       IN  IF ~Truthy(request_id) \/ request_id \notin DOMAIN temp_dir
           THEN /\ Reply("process", user_id, "process_noimage", {})
                /\ UNCHANGED botvars
           ELSE IF {f \in temp_dir[request_id] : IsImageName(f)} = {}
           THEN /\ Reply("process", user_id, "process_imageerror", {})
                /\ UNCHANGED botvars
           ELSE IF result.raised
           THEN /\ Reply("process", user_id, "process_error", {})
                /\ UNCHANGED botvars
           ELSE /\ user_data' = [user_data EXCEPT ![user_id] =
                      [@ EXCEPT !.title = IF Truthy(result.poem_title)
                                          THEN result.poem_title ELSE Untitled,
                                !.text = IF Truthy(result.poem_text)
                                         THEN result.poem_text ELSE Empty]]
                /\ Reply("process", user_id, "process_continue", {})
                /\ UNCHANGED <<user_sessions, temp_dir, uuid_seq>>
    /\ UNCHANGED dbvars
    /\ BotFrame

\* the database after upload_to_db was interrupted when transaction k was
\* about to start (1: ensure_user, 2: ensure_author, 3: the poem)
UploadInterrupted(D, poem_dict, k) ==
    LET eu == ensure_user(D, poem_dict.user_id)
        ea == ensure_author(eu.db, eu.id, Strip(poem_dict.author))
    IN  IF k = 1 THEN D ELSE IF k = 2 THEN eu.db ELSE ea.db

\* the database the API leaves when it answers with this status, or when the
\* exchange ends in an aiohttp.ClientError
ApiOutcomes(D, poem_dict, clock) ==
    {[status |-> 201, db |-> upload_to_db(D, poem_dict, clock).db]}
    \cup {[status |-> 500, db |-> UploadInterrupted(D, poem_dict, k)] :
             k \in 1..3}
    \cup {[status |-> 0, db |-> D],
          [status |-> 0, db |-> upload_to_db(D, poem_dict, clock).db]}

\* the completeness check without the text
DraftComplete_NoText(data) == Truthy(data.author) /\ Truthy(data.title)

\* all([data.get("author"), data.get("title"), data.get("text")])
DraftComplete(data) ==
    Truthy(data.author) /\ Truthy(data.title) /\ Truthy(data.text)

\* the session deleted whatever the API answered
AfterUpload_Always(S, user_id, status) == delete_user_session(S, user_id)

\* the session after the API answered: deleted on 201, kept on any other
\* status and on aiohttp.ClientError (status 0)
AfterUpload(S, user_id, status) ==
    IF status = 201 THEN delete_user_session(S, user_id) ELSE S

\* /upload
upload(user_id, outcome) ==
    /\ ops < MaxUpdates
    /\ Allowed(user_id)
    /\ LET data == IF user_id \in DOMAIN user_data
                   THEN user_data[user_id] ELSE DefaultDraft
           request_id == IF user_id \in DOMAIN user_sessions
                         THEN user_sessions[user_id] ELSE NoneVal
           poem_payload == PoemDict(Str(user_id), data.author, data.title,
                                    data.text, request_id)
       IN  IF \/ user_id \notin DOMAIN user_data
              \/ ~Truthy(request_id)
              \/ ~DraftComplete(data)
           THEN /\ outcome = 0
                /\ Reply("upload", user_id, "upload_incompleted", {})
                /\ UNCHANGED <<dbvars, botvars>>
           ELSE \E r \in ApiOutcomes(CurrentDB, poem_payload, now) :
                   /\ r.status = outcome
                   /\ SetDB(r.db)
                   /\ SetSessions(AfterUpload(CurrentSessions, user_id,
                                               r.status))
                   /\ Reply("upload", user_id,
                            IF r.status = 201 THEN "upload_ok"
                            ELSE "upload_error", {poem_payload})
    /\ BotFrame

\* the database the API leaves when it answers a delete request with this
\* status (the delete is one transaction), or when the exchange ends in an
\* aiohttp.ClientError (status 0); D2 is the database after the delete
DeleteOutcomes(D, D2) ==
    {[status |-> 200, db |-> D2], [status |-> 500, db |-> D],
     [status |-> 0, db |-> D], [status |-> 0, db |-> D2]}

\* the session deleted whatever the API answered to the delete request
AfterDelete_Always(S, user_id, status) == delete_user_session(S, user_id)

\* the session after the API answered a delete request: deleted on 200, kept
\* on any other status and on aiohttp.ClientError
AfterDelete(S, user_id, status) ==
    IF status = 200 THEN delete_user_session(S, user_id) ELSE S

\* /deleteall
deleteall(user_id, outcome) ==
    /\ ops < MaxUpdates
    /\ Allowed(user_id)
    /\ LET S == EnsureSession(CurrentSessions, user_id)
       IN  \E r \in DeleteOutcomes(CurrentDB,
                                   delete_user_db(CurrentDB, Str(user_id))) :
              /\ r.status = outcome
              /\ SetDB(r.db)
              /\ SetSessions(AfterDelete(S, user_id, r.status))
              /\ Reply("deleteall", user_id,
                       IF r.status = 200 THEN "deleteall_ok"
                       ELSE "deleteall_error",
                       {[user_id |-> Str(user_id)]})
    /\ BotFrame

DeleteAuthorArgs == {<<>>, <<"e", "-", "d">>}

\* /deleteauthor [author]
deleteauthor(user_id, text, outcome) ==
    /\ ops < MaxUpdates
    /\ Allowed(user_id)
    /\ LET S == EnsureSession(CurrentSessions, user_id)
           author == Strip(JoinArgs(text))
       IN  IF ~Truthy(author)
           THEN /\ outcome = 0
                /\ SetSessions(S)
                /\ Reply("deleteauthor", user_id, "deleteauthor_incompleted",
                         {})
                /\ UNCHANGED dbvars
           ELSE \E r \in DeleteOutcomes(CurrentDB,
                    delete_author_db(CurrentDB, Str(user_id), author)) :
                   /\ r.status = outcome
                   /\ SetDB(r.db)
                   /\ SetSessions(AfterDelete(S, user_id, r.status))
                   /\ Reply("deleteauthor", user_id,
                            IF r.status = 200 THEN "deleteauthor_ok"
                            ELSE "deleteauthor_error",
                            {[user_id |-> Str(user_id), author |-> author]})
    /\ BotFrame

\* the position of the first "&" of s, 0 when there is none
AmpIndex(s) ==
    IF \E i \in 1..Len(s) : s[i] = "&"
    THEN CHOOSE i \in 1..Len(s) :
             s[i] = "&" /\ \A j \in 1..(i - 1) : s[j] # "&"
    ELSE 0

DeletePoemArgs ==
    {<<>>, <<"H", "o", "p", "e">>,
     <<"H", "o", "p", "e", " ", "&", " ", "e", "-", "d">>}

\* /deletepoem [title] & [author]
deletepoem(user_id, text, outcome) ==
    /\ ops < MaxUpdates
    /\ Allowed(user_id)
    /\ LET S == EnsureSession(CurrentSessions, user_id)
           raw_text == Strip(JoinArgs(text))
           i == AmpIndex(raw_text)
           title == Strip(SubSeq(raw_text, 1, i - 1))
           author == Strip(SubSeq(raw_text, i + 1, Len(raw_text)))
       IN  IF ~Truthy(raw_text)
           THEN /\ outcome = 0
                /\ SetSessions(S)
                /\ Reply("deletepoem", user_id, "deletepoem_incompleted", {})
                /\ UNCHANGED dbvars
           ELSE IF i = 0 \/ ~Truthy(title) \/ ~Truthy(author)
           THEN /\ outcome = 0
                /\ SetSessions(S)
                /\ Reply("deletepoem", user_id, "deletepoem_format", {})
                /\ UNCHANGED dbvars
           ELSE \E r \in DeleteOutcomes(CurrentDB,
                    delete_poem_db(CurrentDB, Str(user_id), author, title)) :
                   /\ r.status = outcome
                   /\ SetDB(r.db)
                   /\ SetSessions(AfterDelete(S, user_id, r.status))
                   /\ Reply("deletepoem", user_id,
                            IF r.status = 200 THEN "deletepoem_ok"
                            ELSE "deletepoem_error",
                            {[user_id |-> Str(user_id), author |-> author,
                              title |-> title]})
    /\ BotFrame

BotNext ==
    \/ \E u \in BotUsers : Unauthorized(u)
    \/ \E u \in BotUsers, a \in StartArgs : start(u, a)
    \/ \E u \in BotUsers, t \in TitleArgs : edittitle(u, t)
    \/ \E u \in BotUsers, t \in PoemArgs : editpoem(u, t)
    \/ \E u \in BotUsers, a \in AuthorArgs : editauthor(u, a)
    \/ \E u \in BotUsers : reset(u)
    \/ \E u \in BotUsers, k \in ImageTypes : handle_image(u, k)
    \/ \E u \in BotUsers, r \in ExtractorResults : process(u, r)
    \/ \E u \in BotUsers, o \in {0, 201, 500} : upload(u, o)

BotSpec == BotInit /\ [][BotNext]_vars

\* the capture commands together with the three delete commands
BotDeleteNext ==
    \/ BotNext
    \/ \E u \in BotUsers, o \in {0, 200, 500} : deleteall(u, o)
    \/ \E u \in BotUsers, a \in DeleteAuthorArgs, o \in {0, 200, 500} :
          deleteauthor(u, a, o)
    \/ \E u \in BotUsers, t \in DeletePoemArgs, o \in {0, 200, 500} :
          deletepoem(u, t, o)

BotDeleteSpec == BotInit /\ [][BotDeleteNext]_vars

-----------------------------------------------------------------------------
(* The pages handed to the extractor. MAX_IMAGES is read from the           *)
(* environment when the bot starts; here it is chosen in the initial state  *)
(* and kept in req, and the session of the user may already hold images.    *)

\* values MAX_IMAGES = int(os.getenv("MAX_IMAGES")) can be started with
ConfiguredMaxImages == {2, 1000}

\* the number of images the session already holds in the initial state
InitialImages == {0, 1, 998, 999}

\* the users that send updates in this model
PagesUsers == {42}

\* the characters of a file name in the order of their code points
CodeOrder ==
    <<".", "0", "1", "2", "3", "4", "5", "6", "7", "8", "9", "a", "b", "c",
      "d", "e", "f", "g", "h", "i", "j", "k", "l", "m", "n", "o", "p", "q",
      "r", "s", "t", "u", "v", "w", "x", "y", "z">>

CharOrder ==
    [c \in {CodeOrder[i] : i \in DOMAIN CodeOrder} |->
        CHOOSE i \in DOMAIN CodeOrder : CodeOrder[i] = c]

\* a < b as Python compares two strings: by the first character that differs,
\* a proper prefix being smaller
StrLess(a, b) ==
    \E i \in 1..(Len(b)) :
        /\ \A j \in 1..(i - 1) : j <= Len(a) /\ a[j] = b[j]
        /\ \/ i = Len(a) + 1
           \/ i <= Len(a) /\ CharOrder[a[i]] < CharOrder[b[i]]

\* the index (from 1) of the file f in sorted(f for f in os.listdir(input_dir)
\* if f.lower().endswith((".jpg", ".jpeg", ".png"))); the paths share the
\* directory, so they sort as the file names do
IndexInImagePaths(f, dir) ==
    1 + Cardinality({g \in dir : IsImageName(g) /\ StrLess(g, f)})

PagesInit ==
    /\ users = init_db.users
    /\ authors = init_db.authors
    /\ poems = init_db.poems
    /\ users_id_seq = init_db.users_id_seq
    /\ authors_id_seq = init_db.authors_id_seq
    /\ poems_json = EmptyMap
    /\ now = 0
    /\ last = NoCall
    /\ prev = NoCall
    /\ ops = 0
    /\ pc = EmptyMap /\ json_ok = TRUE
    /\ \E m \in ConfiguredMaxImages : req = [max_images |-> m]
    /\ \/ /\ user_sessions = EmptyMap
          /\ user_data = EmptyMap
          /\ temp_dir = EmptyMap
          /\ uuid_seq = 0
       \/ \E n \in InitialImages, u \in PagesUsers :
             /\ n <= req.max_images
             /\ user_sessions = Put(EmptyMap, u, Uuid(1))
             /\ user_data = Put(EmptyMap, u, DefaultDraft)
             /\ temp_dir = Put(EmptyMap, Uuid(1),
                               {Pad3(i) \o <<".", "j", "p", "g">> : i \in 1..n})
             /\ uuid_seq = 1

\* handle_image with the configured MAX_IMAGES; last keeps the name the photo
\* was stored under and its image_index
HandleImage(user_id, detected_type) ==
    /\ ops < MaxUpdates
    /\ Allowed(user_id)
    /\ LET S == EnsureSession(CurrentSessions, user_id)
           request_id == S.user_sessions[user_id]
           image_paths == {f \in S.temp_dir[request_id] : IsImageName(f)}
           image_index == Cardinality(image_paths) + 1
           extension == IF detected_type = "jpeg" THEN <<"j", "p", "g">>
                        ELSE <<"p", "n", "g">>
           final_path == Pad3(image_index) \o <<".">> \o extension
       IN  IF Cardinality(image_paths) >= req.max_images
           THEN /\ SetSessions(S)
                /\ last' = [op |-> "handle_image", user |-> user_id,
                            reply |-> "image_max", sent |-> {}]
           ELSE IF detected_type \notin {"jpeg", "png"}
           THEN /\ SetSessions(S)
                /\ last' = [op |-> "handle_image", user |-> user_id,
                            reply |-> "image_invalid", sent |-> {}]
           ELSE /\ SetSessions([S EXCEPT !.temp_dir[request_id] =
                                    @ \cup {final_path}])
                /\ last' = [op |-> "handle_image", user |-> user_id,
                            reply |-> IF image_index = req.max_images
                                      THEN "image_limit" ELSE "image_ok",
                            sent |-> {}, final_path |-> final_path,
                            image_index |-> image_index]
    /\ ops' = ops + 1
    /\ UNCHANGED <<dbvars, poems_json, now, prev, pc, req, json_ok>>

PagesNext ==
    \/ \E u \in PagesUsers, k \in ImageTypes : HandleImage(u, k)
    \/ \E u \in PagesUsers, r \in ExtractorResults : process(u, r)
    \/ \E u \in PagesUsers : reset(u)

PagesSpec == PagesInit /\ [][PagesNext]_vars

-----------------------------------------------------------------------------
(* handle_image step by step: the photo is downloaded to NNN.tmp, sniffed   *)
(* with imghdr and then renamed to NNN.jpg / NNN.png or removed. pc is the  *)
(* position of the handler in progress and req holds its local variables:   *)
(*   "idle"         no update is being handled                              *)
(*   "get_file"     the capacity check passed, before download_to_drive     *)
(*   "downloading"  the temporary file exists and is partly written         *)
(*   "downloaded"   the temporary file is complete, before imghdr.what      *)
(*   "sniffed"      detected_type is known, before os.remove / os.rename    *)

ImgInit ==
    /\ users = init_db.users
    /\ authors = init_db.authors
    /\ poems = init_db.poems
    /\ users_id_seq = init_db.users_id_seq
    /\ authors_id_seq = init_db.authors_id_seq
    /\ poems_json = EmptyMap
    /\ now = 0
    /\ last = NoCall
    /\ prev = NoCall
    /\ ops = 0
    /\ pc = "idle" /\ req = NoReq /\ json_ok = TRUE
    /\ user_sessions = EmptyMap
    /\ user_data = EmptyMap
    /\ temp_dir = EmptyMap
    /\ uuid_seq = 0

ImgFrame == UNCHANGED <<dbvars, poems_json, now, prev, json_ok>>

\* the temporary name downloaded straight under a listed extension
TmpName_Listed(image_index) == Pad3(image_index) \o <<".", "j", "p", "g">>

\* f"{image_index:03d}.tmp"
TmpName(image_index) == Pad3(image_index) \o <<".", "t", "m", "p">>

\* lines 698-727: the session is looked up or created, the images are listed
\* and the capacity is checked
ImgBegin(user_id) ==
    /\ pc = "idle"
    /\ ops < MaxUpdates
    /\ Allowed(user_id)
    /\ LET S == EnsureSession(CurrentSessions, user_id)
           request_id == S.user_sessions[user_id]
           image_paths == {f \in S.temp_dir[request_id] : IsImageName(f)}
       IN  /\ SetSessions(S)
           /\ IF AtCapacity(Cardinality(image_paths))
              THEN /\ Reply("handle_image", user_id, "image_max", {})
                   /\ UNCHANGED <<pc, req>>
              ELSE /\ pc' = "get_file"
                   /\ req' = [op |-> "handle_image", user_id |-> user_id,
                              request_id |-> request_id,
                              image_index |-> Cardinality(image_paths) + 1,
                              written |-> FALSE, detected_type |-> "none"]
                   /\ UNCHANGED <<last, ops>>
    /\ ImgFrame

\* line 730: download_to_drive creates the temporary file and starts writing
ImgDownloadStart ==
    /\ pc = "get_file"
    /\ temp_dir' = [temp_dir EXCEPT ![req.request_id] =
                       @ \cup {TmpName(req.image_index)}]
    /\ pc' = "downloading"
    /\ UNCHANGED <<req, last, ops, user_sessions, user_data, uuid_seq>>
    /\ ImgFrame

\* line 730: download_to_drive has written the whole file
ImgDownloadEnd ==
    /\ pc = "downloading"
    /\ req' = [req EXCEPT !.written = TRUE]
    /\ pc' = "downloaded"
    /\ UNCHANGED <<last, ops, botvars>>
    /\ ImgFrame

\* line 733: detected_type = imghdr.what(temp_path)
ImgSniff(detected_type) ==
    /\ pc = "downloaded"
    /\ req' = [req EXCEPT !.detected_type = detected_type]
    /\ pc' = "sniffed"
    /\ UNCHANGED <<last, ops, botvars>>
    /\ ImgFrame

\* the end of handle_image without the os.remove of a refused download
ImgFinish_KeepTmp ==
    /\ pc = "sniffed"
    /\ LET extension == IF req.detected_type = "jpeg" THEN <<"j", "p", "g">>
                        ELSE <<"p", "n", "g">>
           final_path == Pad3(req.image_index) \o <<".">> \o extension
           temp_path == TmpName(req.image_index)
       IN  IF req.detected_type \notin {"jpeg", "png"}
           THEN /\ temp_dir' = temp_dir
                /\ Reply("handle_image", req.user_id, "image_invalid", {})
           ELSE /\ temp_dir' = [temp_dir EXCEPT ![req.request_id] =
                                   (@ \ {temp_path}) \cup {final_path}]
                /\ Reply("handle_image", req.user_id,
                         IF req.image_index = MAX_IMAGES THEN "image_limit"
                         ELSE "image_ok", {})
    /\ pc' = "idle"
    /\ req' = NoReq
    /\ UNCHANGED <<user_sessions, user_data, uuid_seq>>
    /\ ImgFrame

\* lines 734-756: os.remove of a file of another type, else os.rename to the
\* final name, and the reply
ImgFinish ==
    /\ pc = "sniffed"
    /\ LET extension == IF req.detected_type = "jpeg" THEN <<"j", "p", "g">>
                        ELSE <<"p", "n", "g">>
           final_path == Pad3(req.image_index) \o <<".">> \o extension
           temp_path == TmpName(req.image_index)
       IN  IF req.detected_type \notin {"jpeg", "png"}
           THEN /\ temp_dir' = [temp_dir EXCEPT ![req.request_id] =
                                   @ \ {temp_path}]
                /\ Reply("handle_image", req.user_id, "image_invalid", {})
           ELSE /\ temp_dir' = [temp_dir EXCEPT ![req.request_id] =
                                   (@ \ {temp_path}) \cup {final_path}]
                /\ Reply("handle_image", req.user_id,
                         IF req.image_index = MAX_IMAGES THEN "image_limit"
                         ELSE "image_ok", {})
    /\ pc' = "idle"
    /\ req' = NoReq
    /\ UNCHANGED <<user_sessions, user_data, uuid_seq>>
    /\ ImgFrame

\* /reset, handled between two photos
ImgReset(user_id) ==
    /\ pc = "idle"
    /\ ops < MaxUpdates
    /\ Allowed(user_id)
    /\ SetSessions(delete_user_session(CurrentSessions, user_id))
    /\ Reply("reset", user_id, "reset", {})
    /\ UNCHANGED <<pc, req>>
    /\ ImgFrame

ImgNext ==
    \/ \E u \in BotUsers : ImgBegin(u)
    \/ ImgDownloadStart
    \/ ImgDownloadEnd
    \/ \E k \in ImageTypes : ImgSniff(k)
    \/ ImgFinish
    \/ \E u \in BotUsers : ImgReset(u)

ImgSpec == ImgInit /\ [][ImgNext]_vars

-----------------------------------------------------------------------------
(* Properties of the bot model *)

\* the step is the handling of one update by handler op for user u
HandlerStep(op, u) ==
    /\ ops' = ops + 1
    /\ last'.op = op
    /\ last'.user = u

HasSession(u) == u \in DOMAIN user_sessions

\* the accepted images of a session directory
ImagesOf(S, u) ==
    IF u \in DOMAIN S.user_sessions
       /\ S.user_sessions[u] \in DOMAIN S.temp_dir
    THEN {f \in S.temp_dir[S.user_sessions[u]] : IsImageName(f)}
    ELSE {}

\* the draft of u misses a field, or u has no session at all
DraftIncomplete(u) ==
    \/ ~HasSession(u)
    \/ u \notin DOMAIN user_data
    \/ user_data[u].author \in {NoneVal, <<>>}
    \/ user_data[u].title \in {NoneVal, <<>>}
    \/ user_data[u].text \in {NoneVal, <<>>}

\* C4: Commit (/upload) invoked when one of the draft's author, title or text
\* is empty or null, or when the user has no session, fails with
\* IncompleteDraft, sends nothing to the Storage Engine and leaves the session
\* id, the draft and the accepted images unchanged.
C4_IncompleteCommitRejected ==
    [][\A u \in BotUsers :
          (HandlerStep("upload", u) /\ DraftIncomplete(u))
          => /\ last'.reply = "upload_incompleted"
             /\ last'.sent = {}
             /\ UNCHANGED <<users, authors, poems, users_id_seq,
                            authors_id_seq>>
             /\ UNCHANGED <<user_sessions, user_data, temp_dir>>]_vars

\* a Commit was refused for a session whose draft has a title but no text
C4_Witness ==
    /\ last.op = "upload" /\ last.reply = "upload_incompleted"
    /\ HasSession(last.user)
    /\ user_data[last.user].title # NoneVal
    /\ user_data[last.user].text = NoneVal

\* the names of n images numbered 001..n: one name per ordinal
Numbered(images, n) ==
    /\ Cardinality(images) = n
    /\ \A i \in 1..n :
          \E f \in images :
              \E e \in {<<"j", "p", "g">>, <<"p", "n", "g">>} :
                  f = Pad3(i) \o <<".">> \o e

\* C5: MAX+1 consecutive AddImage calls with valid images leave exactly MAX
\* stored images numbered 001..MAX in arrival order (the k-th accepted image
\* gets ordinal k and no stored image is touched); the call made on a full
\* session reports CapacityExceeded and stores nothing; and a session never
\* has more than MAX accepted images.
C5_ImageCapacity ==
    /\ [](\A u \in BotUsers :
             /\ Cardinality(ImagesOf(CurrentSessions, u)) <= MAX_IMAGES
             /\ Numbered(ImagesOf(CurrentSessions, u),
                         Cardinality(ImagesOf(CurrentSessions, u)))
             /\ (last.op = "handle_image" /\ last.user = u
                 /\ last.reply = "image_max")
                => Numbered(ImagesOf(CurrentSessions, u), MAX_IMAGES))
    /\ [][\A u \in BotUsers, k \in {"jpeg", "png"} :
             (HandlerStep("handle_image", u) /\ handle_image(u, k))
             => LET before == ImagesOf(CurrentSessions, u)
                    after == ImagesOf(CurrentSessions', u)
                    n == Cardinality(before)
                IN  IF n = MAX_IMAGES
                    THEN /\ last'.reply = "image_max"
                         /\ after = before
                         /\ temp_dir' = temp_dir
                    ELSE /\ last'.reply \in {"image_ok", "image_limit"}
                         /\ before \subseteq after
                         /\ Numbered(after, n + 1)
                         /\ \E f \in after \ before :
                                SubSeq(f, 1, 4) = Pad3(n + 1) \o <<".">>]_vars

\* MAX+1 images in a row were sent to one session: the first is 001, the
\* last one was refused
C5_Witness ==
    /\ ops = MAX_IMAGES + 1 /\ uuid_seq = 1
    /\ last.op = "handle_image" /\ last.reply = "image_max"
    /\ Cardinality(ImagesOf(CurrentSessions, last.user)) = MAX_IMAGES
    /\ \E f \in ImagesOf(CurrentSessions, last.user) :
           SubSeq(f, 1, 4) = <<"0", "0", "1", ".">>

\* C6: CreateSession is enabled in every state and a user has at most one
\* session: after CreateSession(u) (/start) the previous session of u is gone
\* with its directory and draft, u's session id is a new one, its directory
\* exists and is empty, and the draft is author "Unknown" (or the author given
\* to /start), title null, text null.
C6_CreateSupersedes ==
    /\ [](\A u \in BotUsers :
             (Allowed(u) /\ ops < MaxUpdates) => ENABLED start(u, <<>>))
    /\ [](/\ \A u \in DOMAIN user_sessions :
                user_sessions[u] \in DOMAIN temp_dir
          /\ Cardinality(DOMAIN temp_dir) = Cardinality(DOMAIN user_sessions)
          /\ DOMAIN user_data = DOMAIN user_sessions)
    /\ [][\A u \in BotUsers :
             HandlerStep("start", u)
             => /\ HasSession(u) =>
                      /\ user_sessions'[u] # user_sessions[u]
                      /\ user_sessions[u] \notin DOMAIN temp_dir'
                /\ \A v \in DOMAIN user_sessions :
                      user_sessions'[u] # user_sessions[v]
                /\ user_sessions'[u] \notin DOMAIN temp_dir
                /\ temp_dir'[user_sessions'[u]] = {}
                /\ user_data'[u].title = NoneVal
                /\ user_data'[u].text = NoneVal
                /\ last'.reply = "start_incompleted"
                      => user_data'[u].author
                            = <<"U", "n", "k", "n", "o", "w", "n">>
                /\ last'.reply = "start_ok"
                      => user_data'[u].author \in {JoinArgs(a) : a \in StartArgs}
            ]_vars

\* /start superseded a session that held an image and an edited draft
C6_Witness ==
    /\ last.op = "start" /\ last.reply = "start_incompleted"
    /\ ops = 4 /\ uuid_seq = 2
    /\ DOMAIN user_sessions = {last.user}
    /\ DOMAIN temp_dir = {Uuid(2)}
    /\ temp_dir[Uuid(2)] = {}

\* C7: when Commit has a complete draft and the Storage Engine call fails
\* (non-201 answer or network error) the session stays as it was (session id,
\* draft, accepted images), the failure is reported, and a later Commit on the
\* unchanged draft can still succeed: the session still meets all that /upload
\* requires and would post the same payload again.
C7_FailedCommitKeepsSession ==
    /\ [][\A u \in BotUsers :
             (HandlerStep("upload", u) /\ ~DraftIncomplete(u)
              /\ last'.reply # "upload_ok")
             => /\ last'.reply = "upload_error"
                /\ last'.sent # {}
                /\ UNCHANGED <<user_sessions, user_data, temp_dir>>]_vars
    /\ []((last.op = "upload" /\ last.reply = "upload_error")
          => /\ HasSession(last.user)
             /\ DraftComplete(user_data[last.user])
             /\ last.sent = {PoemDict(Str(last.user),
                                      user_data[last.user].author,
                                      user_data[last.user].title,
                                      user_data[last.user].text,
                                      user_sessions[last.user])})

\* a Commit failed after the API had committed the user row, on a session
\* with an accepted image
C7_Witness ==
    /\ last.op = "upload" /\ last.reply = "upload_error"
    /\ HasSession(last.user)
    /\ ImagesOf(CurrentSessions, last.user) # {}
    /\ users # {} /\ poems = {}

\* C8: when Commit succeeds, the Poem stored under (user, slug(draft.author),
\* slug(draft.title)) carries the draft's author, title and text and the
\* session id as its request id, and right afterwards the user has no session:
\* no session id, no draft, no scratch directory.
C8_CommitStoresDraft ==
    [][\A u \in BotUsers :
          (HandlerStep("upload", u) /\ last'.reply = "upload_ok")
          => /\ HasSession(u)
             /\ u \in DOMAIN user_data
             /\ LET d == user_data[u]
                    rid == user_sessions[u]
                    got == get_poem(CurrentDB', Str(u), slugify(d.author),
                                    slugify(d.title))
                IN  /\ Cardinality(got) = 1
                    /\ \A g \in got :
                          /\ g.author = d.author
                          /\ g.title = d.title
                          /\ g.poem = d.text
                          /\ g.request_id = rid
                    /\ Cardinality(PoemRows(CurrentDB', Str(u),
                           slugify(d.author), slugify(d.title))) = 1
                    /\ rid \notin DOMAIN temp_dir'
             /\ u \notin DOMAIN user_sessions'
             /\ u \notin DOMAIN user_data']_vars

\* a Commit succeeded: the poem is stored and the user has no session
C8_Witness ==
    /\ last.op = "upload" /\ last.reply = "upload_ok"
    /\ ~HasSession(last.user)
    /\ \E p \in poems : p.request_id \in {Uuid(1), Uuid(2)}
    /\ DOMAIN temp_dir = {}

\* C13: an AddImage in progress is never visible to the user's image
\* enumeration: at every point of handle_image the files that /process would
\* list do not contain the file being downloaded or not yet type-checked, and
\* a file enters the list only in the step made after it was completely
\* written and its sniffed type was accepted.
C13_ImageInProgressNotListed ==
    /\ [](pc # "idle" =>
             \A f \in ImagesOf(CurrentSessions, req.user_id) :
                 f # TmpName(req.image_index))
    /\ [][\A u \in BotUsers :
             ~(ImagesOf(CurrentSessions', u) \subseteq ImagesOf(CurrentSessions, u))
             => /\ pc = "sniffed" /\ pc' = "idle"
                /\ req.user_id = u
                /\ req.written
                /\ req.detected_type \in {"jpeg", "png"}
                /\ Cardinality(ImagesOf(CurrentSessions', u))
                      = Cardinality(ImagesOf(CurrentSessions, u)) + 1]_vars

\* a second photo is being downloaded into a session that holds one accepted
\* image: the directory has two files and the enumeration one
C13_Witness ==
    /\ pc = "downloading"
    /\ Cardinality(temp_dir[req.request_id]) = 2
    /\ Cardinality(ImagesOf(CurrentSessions, req.user_id)) = 1

\* the step is /process of user u on which the extractor gave result r and the
\* handler went on to use it
ProcessStep(u, r) ==
    /\ HandlerStep("process", u)
    /\ process(u, r)
    /\ last'.reply \in {"process_continue", "process_error"}

\* the extractor found exactly one of the title and the text
FoundOne(r) ==
    /\ ~r.raised
    /\ Truthy(r.poem_title) # Truthy(r.poem_text)

FoundNothing(r) == r.raised \/ (~Truthy(r.poem_title) /\ ~Truthy(r.poem_text))

SessionDestroyed(u) ==
    /\ HasSession(u)
    /\ \/ u \notin DOMAIN user_sessions'
       \/ user_sessions'[u] # user_sessions[u]
       \/ u \notin DOMAIN user_data'
       \/ user_sessions[u] \notin DOMAIN temp_dir'
       \/ ~(ImagesOf(CurrentSessions, u) \subseteq ImagesOf(CurrentSessions', u))

\* C16 as stated: an existing session (session id, draft, accepted images) is
\* destroyed by Reset, by a successful Commit or by a superseding
\* CreateSession, and by no other operation; every other command, the poem /
\* author / all delete commands included, leaves it in place.
C16_OnlyThreeDestroy ==
    [][\A u \in BotUsers :
          SessionDestroyed(u)
          => /\ last'.user = u
             /\ \/ last'.op \in {"reset", "start"}
                \/ last'.op = "upload" /\ last'.reply = "upload_ok"]_vars

\* C16 (amended): an existing session is destroyed by Reset, by a successful
\* Commit, by a superseding CreateSession or by a poem / author / all delete
\* command the API answered with success, and by no other operation; every
\* other command of the user, a failed or malformed delete command included,
\* and every command of another user leaves it in place. Each of the named
\* operations does destroy it.
C16_DeleteCommandsDestroyToo ==
    [][\A u \in BotUsers :
          /\ SessionDestroyed(u)
             => /\ last'.user = u
                /\ \/ last'.op \in {"reset", "start"}
                   \/ last'.op = "upload" /\ last'.reply = "upload_ok"
                   \/ /\ last'.op \in {"deleteall", "deleteauthor", "deletepoem"}
                      /\ last'.reply \in {"deleteall_ok", "deleteauthor_ok",
                                          "deletepoem_ok"}
          /\ (/\ HasSession(u) /\ ops' = ops + 1 /\ last'.user = u
              /\ last'.reply \in {"reset", "upload_ok", "deleteall_ok",
                                  "deleteauthor_ok", "deletepoem_ok"})
             => /\ u \notin DOMAIN user_sessions'
                /\ u \notin DOMAIN user_data'
                /\ user_sessions[u] \notin DOMAIN temp_dir']_vars

\* /deletepoem was the second update and was answered with success: the one
\* session created so far is gone with its directory
C16_Witness ==
    /\ last.op = "deletepoem" /\ last.reply = "deletepoem_ok"
    /\ ops = 2 /\ uuid_seq = 1
    /\ ~HasSession(last.user)
    /\ temp_dir = EmptyMap

-----------------------------------------------------------------------------
(* Deletes in the sequential store model *)

\* the step just taken was delete_author_db(last'.user_id, last'.author)
DeleteAuthorStep == ops' = ops + 1 /\ last'.op = "delete_author_db"

\* the authors rows of user_id with the slug author_slug
AuthorsOf(D, user_id, author_slug) ==
    {a \in D.authors : /\ a.author_slug = author_slug
                       /\ \E u \in D.users :
                              u.id = a.user_id /\ u.user_id = user_id}

\* every user id that can be stored
StoredUserIds == UserIds \cup {PyStr(NoneVal)}

DeleteStep ==
    /\ ops' = ops + 1
    /\ last'.op \in {"delete_user_db", "delete_author_db", "delete_poem_db"}

\* the target of the delete call c exists in the relational store D
TargetInDB(D, c) ==
    CASE c.op = "delete_user_db" -> SelectUser(D, c.user_id) # {}
      [] c.op = "delete_author_db" ->
            AuthorsOf(D, c.user_id, slugify(c.author)) # {}
      [] c.op = "delete_poem_db" ->
            PoemRows(D, c.user_id, slugify(c.author), slugify(c.title)) # {}

\* the target of the delete call c exists in the JSON store J
TargetInJson(J, c) ==
    /\ c.user_id \in DOMAIN J
    /\ c.op # "delete_user_db" =>
           /\ slugify(c.author) \in DOMAIN J[c.user_id]
           /\ c.op = "delete_poem_db" =>
                  slugify(c.title) \in DOMAIN J[c.user_id][slugify(c.author)].poems

\* the delete call c applied to the relational store D
ApplyDelete(D, c) ==
    CASE c.op = "delete_user_db" -> delete_user_db(D, c.user_id)
      [] c.op = "delete_author_db" -> delete_author_db(D, c.user_id, c.author)
      [] c.op = "delete_poem_db" ->
            delete_poem_db(D, c.user_id, c.author, c.title)

\* the delete call c applied to the JSON store J
ApplyDeleteJson(J, c) ==
    CASE c.op = "delete_user_db" -> delete_user_db_json(J, c.user_id)
      [] c.op = "delete_author_db" ->
            delete_author_db_json(J, c.user_id, c.author)
      [] c.op = "delete_poem_db" ->
            delete_poem_db_json(J, c.user_id, c.author, c.title)

\* C18: a delete_user_db, delete_author_db or delete_poem_db step whose target
\* (the user, the author of the user, the title of the author) is not in a
\* store leaves that store exactly as it was; and the same call applied once
\* more to the stores it produced leaves them as they are (twice = once).
C18_DeleteOfMissingIsNoOp ==
    [][DeleteStep =>
        /\ ~TargetInDB(CurrentDB, last') => UNCHANGED dbvars
        /\ ~TargetInJson(poems_json, last') => UNCHANGED poems_json
        /\ ~TargetInDB(CurrentDB', last')
        /\ ~TargetInJson(poems_json', last')
        /\ ApplyDelete(CurrentDB', last') = CurrentDB'
        /\ ApplyDeleteJson(poems_json', last') = poems_json']_vars

\* a poem was stored and then delete_poem_db was called for another title of
\* the same author: the stored poem is still there in both stores
C18_Witness ==
    /\ ops = 2
    /\ last.op = "delete_poem_db"
    /\ prev.op = "upload_to_db" /\ ~prev.raised
    /\ prev.args.user_id = last.user_id
    /\ slugify(Strip(prev.args.author)) = slugify(last.author)
    /\ slugify(Strip(prev.args.title)) # slugify(last.title)
    /\ Cardinality(poems) = 1
    /\ JsonPoemCount(poems_json, last.user_id, slugify(last.author)) = 1

-----------------------------------------------------------------------------
(* Upsert without a user id, and the URL of a poem *)

\* the step just taken was upload_to_db(last'.args)
UploadStep == ops' = ops + 1 /\ last'.op = "upload_to_db"

\* C19: an upload_to_db step whose payload has no user_id (None) or an empty
\* one raises, and leaves every table of the relational store and the JSON
\* store as they were.
C19_NoUserIdFailsBeforeWrite ==
    [][(UploadStep /\ ~Truthy(last'.args.user_id)) =>
           /\ last'.raised
           /\ UNCHANGED <<dbvars, poems_json>>]_vars

\* the URL the specification gives the poem (user, author, title)
SpecUrl(user, author, title) ==
    IF user = MAIN_USER_ID
    THEN slugify(author) \o <<"/">> \o slugify(title)
    ELSE <<"i", "d", "/">> \o user \o <<"/">> \o slugify(author)
             \o <<"/">> \o slugify(title)

\* C20: an upload_to_db step with a user id returns, from the relational store
\* and from the JSON store, slug(author)/slug(title) for the primary user and
\* id/{user}/slug(author)/slug(title) for any other user, and the poem stored
\* under the key carries, in each store, the URL that store returned.
C20_UrlBySpec ==
    [][(UploadStep /\ Truthy(last'.args.user_id)) =>
           LET d == last'.args
               url == SpecUrl(d.user_id, d.author, d.title)
               as == slugify(d.author)
               ts == slugify(d.title)
           IN  /\ ~last'.raised
               /\ last'.poem_url = url
               /\ last'.poem_url_json = url
               /\ PoemRows(CurrentDB', d.user_id, as, ts) # {}
               /\ \A p \in PoemRows(CurrentDB', d.user_id, as, ts) :
                      p.poem_url = last'.poem_url
               /\ poems_json'[d.user_id][as].poems[ts].poem_url
                      = last'.poem_url_json]_vars

-----------------------------------------------------------------------------
(* Reads of the relational store *)

\* the last call was an upload_to_db that returned
Uploaded == last.op = "upload_to_db" /\ ~last.raised

\* get_poem for the key of the last upload returns one record, with these
\* fields and the URL the upload returned
GetPoemReturns(author, title, text, request_id) ==
    LET d == last.args
        found == get_poem(CurrentDB, d.user_id, slugify(d.author),
                          slugify(d.title))
    IN  /\ Cardinality(found) = 1
        /\ \A r \in found : /\ r.author = author
                             /\ r.title = title
                             /\ r.poem = text
                             /\ r.request_id = request_id
                             /\ r.poem_url = last.poem_url

\* get_poem returns None exactly for the keys under which no poems row is
\* stored
NotFoundIffAbsent ==
    \A u \in UserIds, as \in AuthorSlugs, ts \in TitleSlugs :
        (get_poem(CurrentDB, u, as, ts) = {})
            = (\A p \in poems : \A a \in authors : \A w \in users :
                  ~(/\ p.title_slug = ts /\ p.author_id = a.id
                    /\ a.author_slug = as /\ a.user_id = w.id
                    /\ w.user_id = u))

TwoPoemsOfOneAuthor ==
    /\ Uploaded /\ prev.op = "upload_to_db" /\ ~prev.raised
    /\ prev.args.user_id = last.args.user_id
    /\ slugify(prev.args.author) = slugify(last.args.author)
    /\ slugify(prev.args.title) # slugify(last.args.title)

\* title_slug comes before other in every list get_poems_by_author can return
\* for the author of the last upload
ListedBefore(title_slug, other) ==
    LET res == get_poems_by_author(CurrentDB, last.args.user_id,
                                   slugify(last.args.author))
    IN  /\ res # {}
        /\ \A r \in res :
               \E i, j \in DOMAIN r.poems :
                   /\ i < j
                   /\ r.poems[i].title_slug = title_slug
                   /\ r.poems[j].title_slug = other

\* C22: get_poems_by_author returns None exactly when the user has no author
\* of that slug, and after two upserts of different titles under one author
\* the title upserted last is listed before the one upserted earlier.
C22_MostRecentFirst ==
    /\ \A u \in UserIds, as \in AuthorSlugs :
           (get_poems_by_author(CurrentDB, u, as) = {})
               = (AuthorsOf(CurrentDB, u, as) = {})
    /\ TwoPoemsOfOneAuthor =>
           ListedBefore(slugify(last.args.title), slugify(prev.args.title))

\* the authors rows of the user user_id
UserAuthors(D, user_id) ==
    {a \in D.authors : \E u \in D.users : u.id = a.user_id /\ u.user_id = user_id}

\* m maps every author of user_id to its display name and to exactly the
\* poems stored under it, and has no other entry
MapsAuthorsOf(m, D, user_id) ==
    /\ DOMAIN m = {a.author_slug : a \in UserAuthors(D, user_id)}
    /\ \A a \in UserAuthors(D, user_id) :
           a.author_slug \in DOMAIN m =>
               LET rows == {p \in D.poems : p.author_id = a.id}
                   e == m[a.author_slug]
               IN  /\ e.author = a.author
                   /\ DOMAIN e.poems = {p.title_slug : p \in rows}
                   /\ \A p \in rows :
                          /\ e.poems[p.title_slug].title = p.title
                          /\ e.poems[p.title_slug].poem = p.poem
                          /\ e.poems[p.title_slug].poem_url = p.poem_url
                          /\ e.poems[p.title_slug].request_id = p.request_id

\* C23: get_poems_by_user(u) is the empty mapping for a user that is not
\* stored; for a stored user it has one entry per author of u, carrying the
\* author's display name and exactly the poems stored under the author, and
\* nothing of another user; the JSON store returns the user's own entry, or
\* the empty mapping.
C23_MapsEveryAuthor ==
    \A u \in UserIds :
        /\ SelectUser(CurrentDB, u) = {} =>
               get_poems_by_user(CurrentDB, u) = EmptyMap
        /\ MapsAuthorsOf(get_poems_by_user(CurrentDB, u), CurrentDB, u)
        /\ u \notin DOMAIN poems_json =>
               get_poems_by_user_json(poems_json, u) = EmptyMap
        /\ u \in DOMAIN poems_json =>
               get_poems_by_user_json(poems_json, u) = poems_json[u]

-----------------------------------------------------------------------------
(* Field edits of the bot model *)

\* the draft field each edit command writes
EditField == [edittitle |-> "title", editpoem |-> "text",
              editauthor |-> "author"]

EditOps == {"edittitle", "editpoem", "editauthor"}

\* the values each edit command can be given, as the handler computes them
\* from the message
EditValues(op) ==
    CASE op = "edittitle" -> {JoinArgs(t) : t \in TitleArgs}
      [] op = "editpoem" -> {Strip(t) : t \in PoemArgs}
      [] op = "editauthor" -> {Strip(JoinArgs(a)) : a \in AuthorArgs}

\* the step just taken was the edit command op of user u
EditStep(op, u) ==
    /\ ops' = ops + 1 /\ last'.op = op /\ last'.user = u

\* the draft fields of u other than field are as they were
OtherFieldsKept(u, field) ==
    \A f \in {"author", "title", "text"} \ {field} :
        user_data'[u][f] = user_data[u][f]

\* C24: an edit command that was accepted, on a user with a session, writes
\* the value it was given into its own draft field and changes nothing else:
\* the session id, the two other draft fields, the session directory with its
\* images and every other user's session are as before.
C24_EditWritesOnlyItsField ==
    [][\A op \in EditOps, u \in BotUsers :
          (EditStep(op, u) /\ HasSession(u)
             /\ last'.reply = op \o "_ok")
          => /\ user_sessions' = user_sessions
             /\ temp_dir' = temp_dir
             /\ uuid_seq' = uuid_seq
             /\ DOMAIN user_data' = DOMAIN user_data
             /\ \A v \in DOMAIN user_data \ {u} : user_data'[v] = user_data[v]
             /\ OtherFieldsKept(u, EditField[op])
             /\ user_data'[u][EditField[op]] \in EditValues(op) \ {<<>>}]_vars

\* the title found by the extractor was replaced by an edited one: the text
\* found by the extractor, the author and the image are still there
C24_Witness ==
    /\ last.op = "edittitle" /\ last.reply = "edittitle_ok"
    /\ HasSession(last.user)
    /\ user_data[last.user].title = <<"H", "o", "p", "e">>
    /\ user_data[last.user].text = <<"v", "2">>
    /\ user_data[last.user].author = DefaultDraft.author
    /\ ImagesOf(CurrentSessions, last.user) # {}

\* C25 as stated: an edit command performs no validation, so whatever value
\* it is given, an empty one included, it is accepted and written into the
\* draft field.
C25_EditNeverValidates ==
    [][\A op \in EditOps, u \in BotUsers :
          EditStep(op, u)
          => /\ last'.reply = op \o "_ok"
             /\ user_data'[u][EditField[op]] \in EditValues(op)]_vars

\* C25 (amended): an edit command checks only that its value is not empty: an
\* empty value is refused with the "incompleted" reply and the draft is left
\* as it was (the default draft when the session had to be created), and any
\* other value is accepted and written into the draft field.
C25_EditRejectsOnlyEmpty ==
    [][\A op \in EditOps, u \in BotUsers :
          EditStep(op, u)
          => \/ /\ last'.reply = op \o "_ok"
                /\ user_data'[u][EditField[op]] \in EditValues(op) \ {<<>>}
             \/ /\ last'.reply = op \o "_incompleted"
                /\ <<>> \in EditValues(op)
                /\ user_data'[u] = IF HasSession(u) THEN user_data[u]
                                   ELSE DefaultDraft]_vars

\* an empty /editpoem was refused on a session whose draft already had a
\* text, and the text is still there
C25_Witness ==
    /\ last.op = "editpoem" /\ last.reply = "editpoem_incompleted"
    /\ HasSession(last.user)
    /\ user_data[last.user].text = <<"v", "1">>

\* the draft a session starts with, as the specification gives it
UnknownAuthorDraft ==
    [author |-> <<"U", "n", "k", "n", "o", "w", "n">>, title |-> NoneVal,
     text |-> NoneVal]

\* C26: a photo or an edit command of a user without a session is not refused
\* for want of a session: the step creates a session with a fresh id, a new
\* directory and the default draft, and applies the operation to it (the
\* directory holds at most the photo just accepted, the draft differs from the
\* default at most in the field just edited); for a user with a session the
\* step keeps the session id.
C26_SessionCreatedOnDemand ==
    [][\A op \in EditOps \cup {"handle_image"}, u \in BotUsers :
          EditStep(op, u)
          => IF HasSession(u)
             THEN HasSession(u)' /\ user_sessions'[u] = user_sessions[u]
             ELSE /\ HasSession(u)'
                  /\ user_sessions'[u] \notin DOMAIN temp_dir
                  /\ \A v \in DOMAIN user_sessions :
                         user_sessions[v] # user_sessions'[u]
                  /\ user_sessions'[u] \in DOMAIN temp_dir'
                  /\ last'.reply \notin {"error", "process_noimage"}
                  /\ IF op = "handle_image"
                     THEN /\ user_data'[u] = UnknownAuthorDraft
                          /\ temp_dir'[user_sessions'[u]]
                                 \in {{}, {Pad3(1) \o <<".", "j", "p", "g">>},
                                      {Pad3(1) \o <<".", "p", "n", "g">>}}
                     ELSE /\ temp_dir'[user_sessions'[u]] = {}
                          /\ \A f \in {"author", "title", "text"} \ {EditField[op]} :
                                 user_data'[u][f] = UnknownAuthorDraft[f]
                          /\ user_data'[u][EditField[op]]
                                 \in (EditValues(op) \ {<<>>})
                                     \cup {UnknownAuthorDraft[EditField[op]]}]_vars

\* the first update of a user was an /edittitle: the user now has a session
\* with an empty directory and a draft that has the title and the default
\* author
C26_Witness ==
    /\ ops = 1 /\ last.op = "edittitle" /\ last.reply = "edittitle_ok"
    /\ HasSession(last.user)
    /\ temp_dir[user_sessions[last.user]] = {}
    /\ user_data[last.user].title = <<"H", "o", "p", "e">>
    /\ user_data[last.user].author = <<"U", "n", "k", "n", "o", "w", "n">>

-----------------------------------------------------------------------------
(* Session teardown *)

\* the sessions S after the directory of u's session was removed from outside
DirMissing(S, u) ==
    IF u \in DOMAIN S.user_sessions
    THEN [S EXCEPT !.temp_dir = Remove(@, S.user_sessions[u])]
    ELSE S

\* delete_user_session(u) applied to the sessions as they are, and to them
\* with u's directory already missing, leaves u without id, draft and
\* directory and touches nothing of another user; applied again, or to a user
\* without a session, it changes nothing
TeardownIdempotent ==
    \A u \in BotUsers :
        LET S == CurrentSessions
            D == delete_user_session(S, u)
        IN  /\ u \notin DOMAIN D.user_sessions
            /\ u \notin DOMAIN D.user_data
            /\ u \in DOMAIN S.user_sessions =>
                   S.user_sessions[u] \notin DOMAIN D.temp_dir
            /\ \A v \in DOMAIN S.user_sessions \ {u} :
                   /\ D.user_sessions[v] = S.user_sessions[v]
                   /\ D.user_data[v] = S.user_data[v]
                   /\ D.temp_dir[S.user_sessions[v]]
                          = S.temp_dir[S.user_sessions[v]]
            /\ delete_user_session(D, u) = D
            /\ delete_user_session(DirMissing(S, u), u) = D
            /\ u \notin DOMAIN S.user_sessions => D = S

\* C27: a /reset step leaves its user without session id, draft and session
\* directory, answers "reset", and changes nothing when the user had no
\* session; and in every reachable state delete_user_session is idempotent
\* and gives the same result when the directory is already gone.
C27_ResetLeadsToNoSession ==
    /\ []TeardownIdempotent
    /\ [][\A u \in BotUsers :
              EditStep("reset", u)
              => /\ last'.reply = "reset"
                 /\ ~HasSession(u)'
                 /\ u \notin DOMAIN user_data'
                 /\ HasSession(u) => user_sessions[u] \notin DOMAIN temp_dir'
                 /\ ~HasSession(u) => UNCHANGED botvars
                 /\ UNCHANGED dbvars]_vars

\* the first update created a session and the second was a /reset: no id,
\* no draft and no directory is left
C27_Witness ==
    /\ last.op = "reset" /\ ops = 2
    /\ uuid_seq = 1
    /\ user_sessions = EmptyMap /\ user_data = EmptyMap /\ temp_dir = EmptyMap

-----------------------------------------------------------------------------
(* Refused images and the ordinals of the accepted ones *)

\* C28: the end of a handle_image whose download was sniffed as neither jpeg
\* nor png answers "image_invalid", leaves every session's accepted images as
\* they were and no other file in the directory; and at all times the accepted
\* images of a session are numbered 001..n, one per ordinal, n being their
\* number, with nothing else in the directory while no photo is in progress.
C28_RefusedImageLeavesNoTrace ==
    /\ [](\A u \in BotUsers :
             /\ Numbered(ImagesOf(CurrentSessions, u),
                         Cardinality(ImagesOf(CurrentSessions, u)))
             /\ (pc = "idle" /\ HasSession(u)) =>
                    temp_dir[user_sessions[u]] = ImagesOf(CurrentSessions, u))
    /\ [][(pc = "sniffed" /\ pc' = "idle"
              /\ req.detected_type \notin {"jpeg", "png"})
           => /\ last'.reply = "image_invalid"
              /\ \A u \in BotUsers :
                     ImagesOf(CurrentSessions', u) = ImagesOf(CurrentSessions, u)
              /\ temp_dir'[req.request_id]
                     = ImagesOf(CurrentSessions, req.user_id)]_vars

\* a photo of another type was refused on a session that holds one accepted
\* image: the directory holds that image and nothing else
C28_Witness ==
    /\ pc = "idle"
    /\ last.op = "handle_image" /\ last.reply = "image_invalid"
    /\ HasSession(last.user)
    /\ temp_dir[user_sessions[last.user]] = ImagesOf(CurrentSessions, last.user)
    /\ Cardinality(ImagesOf(CurrentSessions, last.user)) = 1

-----------------------------------------------------------------------------
(* The order of the pages *)

\* C29: whatever MAX_IMAGES the bot was started with, the image that was
\* accepted as the k-th of its session is the k-th of the sorted paths that
\* /process hands to the extractor; and /process hands nothing over when the
\* user has no session or no accepted image.
C29_PagesInArrivalOrder ==
    /\ (last.op = "handle_image" /\ last.reply \in {"image_ok", "image_limit"})
           => IndexInImagePaths(last.final_path,
                                temp_dir[user_sessions[last.user]])
                  = last.image_index
    /\ (last.op = "process" /\ ImagesOf(CurrentSessions, last.user) = {})
           => last.reply \in {"process_noimage", "process_imageerror"}

-----------------------------------------------------------------------------
(* Isolation between users *)

\* the user a request of the JSON store was issued for
JsonRequestUser(r) ==
    IF r.op = "upload_to_db" THEN PyStr(r.arg.user_id) ELSE r.arg

\* C30, storage part on the JSON store: the write of a request issued for one
\* user leaves the records of every other user in poems.json as they were.
C30_OtherUsersUntouched ==
    [][\A p \in Procs :
          (pc[p] = "json_dump" /\ pc'[p] = "done" /\ json_ok')
          => \A v \in UserIds \ {JsonRequestUser(req[p])} :
                get_poems_by_user_json(poems_json', v)
                    = get_poems_by_user_json(poems_json, v)]_vars

\* the user a call of the sequential store model or an update of the bot was
\* issued for, as the user id of the store
CallUser(c) ==
    IF "user" \in DOMAIN c THEN Str(c.user)
    ELSE IF "args" \in DOMAIN c THEN PyStr(c.args.user_id)
    ELSE c.user_id

\* the rows of the relational store D scoped to the user v
RowsOf(D, v) ==
    LET U == {u \in D.users : u.user_id = v}
        A == {a \in D.authors : \E u \in U : a.user_id = u.id}
    IN  [users |-> U, authors |-> A,
         poems |-> {q \in D.poems : \E a \in A : q.author_id = a.id}]

\* the session of the bot user v: its id, draft and directory
SessionOf(S, v) ==
    IF v \in DOMAIN S.user_sessions
    THEN [id |-> S.user_sessions[v], data |-> S.user_data[v],
          dir |-> S.temp_dir[S.user_sessions[v]]]
    ELSE [id |-> NoneVal]

\* one call or one update at a time: what is issued for a user leaves the
\* rows, the JSON entry and the session of every other user as they were
SequentialIsolation ==
    [][ops' = ops + 1 =>
          /\ \A v \in UserIds \ {CallUser(last')} :
                 /\ RowsOf(CurrentDB', v) = RowsOf(CurrentDB, v)
                 /\ get_poems_by_user_json(poems_json', v)
                        = get_poems_by_user_json(poems_json, v)
          /\ \A v \in BotUsers :
                 Str(v) # CallUser(last') =>
                     SessionOf(CurrentSessions', v)
                         = SessionOf(CurrentSessions, v)]_vars

-----------------------------------------------------------------------------
(* The two stores side by side *)

\* the mappings m and j of one user have the same author slugs, display
\* names, poem slugs, titles, texts, request ids and URLs
SameMapping(m, j) ==
    /\ DOMAIN m = DOMAIN j
    /\ \A s \in DOMAIN m \cap DOMAIN j :
           /\ m[s].author = j[s].author
           /\ DOMAIN m[s].poems = DOMAIN j[s].poems
           /\ \A t \in DOMAIN m[s].poems \cap DOMAIN j[s].poems :
                  /\ m[s].poems[t].title = j[s].poems[t].title
                  /\ m[s].poems[t].poem = j[s].poems[t].poem
                  /\ m[s].poems[t].request_id = j[s].poems[t].request_id
                  /\ m[s].poems[t].poem_url = j[s].poems[t].poem_url

\* C31: after every sequence of upload_to_db, delete_poem_db, delete_author_db
\* and delete_user_db calls made on both stores, the last upload returned the
\* same URL from both, and get_poems_by_user gives the same mapping in both
\* for every user.
C31_StoresInterchangeable ==
    /\ Uploaded => last.poem_url = last.poem_url_json
    /\ \A u \in UserIds :
           SameMapping(get_poems_by_user(CurrentDB, u),
                       get_poems_by_user_json(poems_json, u))

\* the same, for the primary user alone
PrimaryUserMappingsAgree ==
    SameMapping(get_poems_by_user(CurrentDB, MAIN_USER_ID),
                get_poems_by_user_json(poems_json, MAIN_USER_ID))

-----------------------------------------------------------------------------
(* Identity by slug *)

\* the step is a delete_poem_db made right after a successful upload
DeleteAfterUpload ==
    /\ ops' = ops + 1
    /\ Uploaded
    /\ last'.op = "delete_poem_db"

\* C32: the poem stored by upload_to_db(u, a, t) is stored under
\* (u, slug(a), slug(t)): get_poem finds it under these slugs, under the
\* slugs of the slugs, and under no other pair of slugs unless a poem is
\* stored there; a following delete_poem_db(u2, a2, t2) removes it exactly
\* when u2 = u, slug(a2) = slug(a) and slug(t2) = slug(t); and a delete given
\* the slugs as names does what the delete given the names does.
C32_IdentityIsTheSlug ==
    /\ [](Uploaded =>
             LET d == last.args
                 as == slugify(d.author)
                 ts == slugify(d.title)
             IN  /\ get_poem(CurrentDB, d.user_id, as, ts) # {}
                 /\ get_poem(CurrentDB, d.user_id, slugify(as), slugify(ts))
                        = get_poem(CurrentDB, d.user_id, as, ts)
                 /\ \A s1 \in AuthorSlugs, s2 \in TitleSlugs :
                        (get_poem(CurrentDB, d.user_id, s1, s2) # {})
                            = (PoemRows(CurrentDB, d.user_id, s1, s2) # {})
                 /\ \A a \in AuthorNames, t \in Titles :
                        delete_poem_db(CurrentDB, d.user_id, slugify(a),
                                       slugify(t))
                            = delete_poem_db(CurrentDB, d.user_id, a, t))
    /\ [][DeleteAfterUpload =>
             LET d == last.args
                 as == slugify(d.author)
                 ts == slugify(d.title)
             IN  /\ PoemRows(CurrentDB, d.user_id, as, ts) # {}
                 /\ (PoemRows(CurrentDB', d.user_id, as, ts) = {})
                        = (/\ last'.user_id = d.user_id
                           /\ slugify(last'.author) = as
                           /\ slugify(last'.title) = ts)]_vars

\* a poem upserted under the author "e-d " was deleted under the name "E D",
\* which has the same slug
C32_Witness ==
    /\ last.op = "delete_poem_db"
    /\ prev.op = "upload_to_db" /\ ~prev.raised
    /\ prev.args.user_id = last.user_id
    /\ prev.args.author # last.author
    /\ Strip(prev.args.author) # last.author
    /\ slugify(prev.args.author) = slugify(last.author)
    /\ slugify(prev.args.title) = slugify(last.title)
    /\ poems = {} /\ authors # {}

-----------------------------------------------------------------------------
(* Concurrent writes of different keys *)

\* the only two calls made were uploads of two different titles, one per
\* thread, and both have returned
TwoUploadsReturned ==
    /\ ops = 2
    /\ \A p \in Procs : pc[p] = "done" /\ req[p].op = "upload_to_db"
    /\ \E p, q \in Procs :
           slugify(req[p].arg.title) # slugify(req[q].arg.title)

\* C33: when two upload_to_db calls for different poems ran concurrently on
\* the JSON store and both returned, poems.json is a complete document that
\* holds both poems.
C33_NoLostUpdate ==
    TwoUploadsReturned =>
        /\ json_ok
        /\ \A p \in Procs :
               LET d == req[p].arg
               IN  JsonTexts(poems_json, PyStr(d.user_id), slugify(d.author),
                             slugify(d.title)) # {}

-----------------------------------------------------------------------------
(* The session maps and the scratch directories *)

\* the users whose session id is the name of directory d
OwnersOf(d) == {u \in DOMAIN user_sessions : user_sessions[u] = d}

\* C35: after every handler, user_sessions and user_data have the same users,
\* every such user has a directory under TEMP_DIR named by its session id,
\* and every directory under TEMP_DIR is the directory of exactly one user's
\* session.
C35_MapsAndDirectoriesAgree ==
    /\ DOMAIN user_sessions = DOMAIN user_data
    /\ \A u \in DOMAIN user_sessions : user_sessions[u] \in DOMAIN temp_dir
    /\ \A d \in DOMAIN temp_dir : Cardinality(OwnersOf(d)) = 1

\* two users hold sessions and at least one earlier session was replaced or
\* destroyed
C35_Witness ==
    /\ Cardinality(DOMAIN user_sessions) = 2
    /\ uuid_seq >= 3
    /\ Cardinality(DOMAIN temp_dir) = 2

-----------------------------------------------------------------------------
(* The author of a draft *)

TitleAndTextSet(data) == Truthy(data.title) /\ Truthy(data.text)

\* C36: the author of every draft is non-empty in every state, so a draft
\* passes the completeness check of /upload exactly when its title and its
\* text are non-empty, and /upload answers "upload_incompleted" exactly when
\* the user has no session or title or text is missing.
C36_AuthorNeverEmpty ==
    /\ [](\A u \in DOMAIN user_data :
            /\ Truthy(user_data[u].author)
            /\ DraftComplete(user_data[u]) <=> TitleAndTextSet(user_data[u]))
    /\ [][\A u \in BotUsers : HandlerStep("upload", u) =>
             (last'.reply = "upload_incompleted"
                <=> ~(HasSession(u) /\ TitleAndTextSet(user_data[u])))]_vars

\* an empty /editauthor was refused for a user whose title and text are set:
\* the draft still has its author and is complete
C36_Witness ==
    /\ last.op = "editauthor"
    /\ last.reply = "editauthor_incompleted"
    /\ HasSession(last.user)
    /\ Truthy(user_data[last.user].author)
    /\ TitleAndTextSet(user_data[last.user])

-----------------------------------------------------------------------------
(* What /process changes *)

\* the titles and texts /process can store from a result of the extractor
ExtractedTitles ==
    {IF Truthy(r.poem_title) THEN r.poem_title ELSE Untitled :
        r \in {x \in ExtractorResults : ~x.raised}}

ExtractedTexts ==
    {IF Truthy(r.poem_text) THEN r.poem_text ELSE Empty :
        r \in {x \in ExtractorResults : ~x.raised}}

\* C37: /process never changes the author of a draft, a session id, a
\* directory or another user's draft; when it completes ("process_continue")
\* the title and the text of the draft are the ones of the extractor, whatever
\* the user had set before; for a user without session or without accepted
\* image it changes nothing and creates no session.
C37_ProcessFrame ==
    [][\A u \in BotUsers : HandlerStep("process", u) =>
          /\ user_sessions' = user_sessions
          /\ temp_dir' = temp_dir
          /\ uuid_seq' = uuid_seq
          /\ DOMAIN user_data' = DOMAIN user_data
          /\ \A v \in DOMAIN user_data :
                 /\ user_data'[v].author = user_data[v].author
                 /\ v # u => user_data'[v] = user_data[v]
          /\ last'.reply = "process_continue" =>
                 /\ user_data'[u].title \in ExtractedTitles
                 /\ user_data'[u].text \in ExtractedTexts
          /\ (~HasSession(u) \/ ImagesOf(CurrentSessions, u) = {}) =>
                 /\ user_data' = user_data
                 /\ last'.reply \in {"process_noimage", "process_imageerror"}]_vars

\* /process completed for a user who had chosen the author with /editauthor:
\* the author is kept and the title and text are the extractor's
C37_Witness ==
    /\ last.op = "process"
    /\ last.reply = "process_continue"
    /\ user_data[last.user].author = <<"e", "-", "d">>
    /\ user_data[last.user].title = <<"O", "d", "e">>
    /\ user_data[last.user].text = <<"v", "2">>
    /\ ImagesOf(CurrentSessions, last.user) # {}

-----------------------------------------------------------------------------
(* The two listings *)

\* C38: in every state, for every user and author slug, the slug is a key of
\* get_poems_by_user(user) exactly when get_poems_by_author(user, slug) is
\* not None.
C38_ListingsAgreeOnAuthors ==
    \A u \in UserIds, a \in AuthorSlugs :
        a \in DOMAIN get_poems_by_user(CurrentDB, u)
            <=> get_poems_by_author(CurrentDB, u, a) # {}

-----------------------------------------------------------------------------
(* Concurrent create-if-absent *)

\* the only requests made are two uploads, one per worker
OnlyTwoUploads ==
    /\ ops = 2
    /\ \A p \in Procs : req[p].op = "upload_to_db"

\* C39: when the only requests are concurrent uploads for the same unknown
\* user, no INSERT of ensure_user or ensure_author raises because of the
\* other upload, and once both have answered 201 there is exactly one users
\* row for the user, one authors row per author slug, and each poem is
\* stored.
C39_CreateIfAbsentRaceFree ==
    /\ [][OnlyTwoUploads =>
             \A p \in Procs :
                 pc[p] \in {"ensure_user_insert", "ensure_author_insert"}
                     => pc'[p] # "done"]_vars
    /\ []((OnlyTwoUploads /\ \A p \in Procs : pc[p] = "done"
                                               /\ req[p].status = 201) =>
             /\ Cardinality(SelectUser(CurrentDB, MAIN_USER_ID)) = 1
             /\ \A p \in Procs :
                    /\ Cardinality(AuthorsOf(CurrentDB, req[p].user_id,
                                             slugify(req[p].author))) = 1
                    /\ PoemRows(CurrentDB, req[p].user_id,
                                slugify(req[p].author),
                                slugify(req[p].title)) # {})

-----------------------------------------------------------------------------
(* The write endpoints of the API (src/api/app.py) next to the bot: each    *)
(* request is answered before the next update or request is handled. The    *)
(* user_id of a payload is any string or null; the other fields are present. *)

\* {user_id.strip() for user_id in ALLOWED_USER_ID.split(",")}
ALLOWED_USERS == {Strip(u) : u \in ALLOWED_USER_ID}

\* an API that lets every user_id through
is_authorized_Anyone(user_id) == TRUE

\* user_id in ALLOWED_USERS
is_authorized(user_id) == user_id \in ALLOWED_USERS

\* user ids of API payloads: listed, unlisted, a listed id with a blank in
\* front, the empty string and null
ApiUserIds == {<<"4", "2">>, <<"9">>, <<" ", "7">>, <<>>, NoneVal}

ApiPoemDicts ==
    {PoemDict(u, a, <<"H", "o", "p", "e">>, <<"v", "1">>, <<"r", "-", "i">>) :
        u \in ApiUserIds, a \in {<<"P", "o">>, <<"E", " ", "D">>}}

\* what an endpoint leaves behind: the status of its response
Answer(op, user_id, status) ==
    /\ last' = [op |-> op, user_id |-> user_id, status |-> status]
    /\ ops' = ops + 1

ApiFrame == UNCHANGED <<botvars, poems_json, now, prev, concvars>>

\* POST /api/upload_poem
api_upload_poem(data) ==
    /\ ops < MaxUpdates
    /\ IF ~is_authorized(data.user_id)
       THEN /\ Answer("api_upload_poem", data.user_id, 401)
            /\ UNCHANGED dbvars
       ELSE LET r == upload_to_db(CurrentDB, data, now)
            IN  /\ SetDB(r.db)
                /\ Answer("api_upload_poem", data.user_id,
                          IF r.raised THEN 500 ELSE 201)
    /\ ApiFrame

\* POST /api/delete_poem
api_delete_poem(user_id, author, title) ==
    /\ ops < MaxUpdates
    /\ IF ~is_authorized(user_id)
       THEN /\ Answer("api_delete_poem", user_id, 401)
            /\ UNCHANGED dbvars
       ELSE /\ SetDB(delete_poem_db(CurrentDB, user_id, author, title))
            /\ Answer("api_delete_poem", user_id, 200)
    /\ ApiFrame

\* POST /api/delete_author
api_delete_author(user_id, author) ==
    /\ ops < MaxUpdates
    /\ IF ~is_authorized(user_id)
       THEN /\ Answer("api_delete_author", user_id, 401)
            /\ UNCHANGED dbvars
       ELSE /\ SetDB(delete_author_db(CurrentDB, user_id, author))
            /\ Answer("api_delete_author", user_id, 200)
    /\ ApiFrame

\* POST /api/delete_all
api_delete_all(user_id) ==
    /\ ops < MaxUpdates
    /\ IF ~is_authorized(user_id)
       THEN /\ Answer("api_delete_all", user_id, 401)
            /\ UNCHANGED dbvars
       ELSE /\ SetDB(delete_user_db(CurrentDB, user_id))
            /\ Answer("api_delete_all", user_id, 200)
    /\ ApiFrame

AccessNext ==
    \/ \E u \in BotUsers : Unauthorized(u)
    \/ \E u \in BotUsers, a \in StartArgs : start(u, a)
    \/ \E u \in BotUsers, k \in ImageTypes : handle_image(u, k)
    \/ \E u \in BotUsers : reset(u)
    \/ \E d \in ApiPoemDicts : api_upload_poem(d)
    \/ \E u \in ApiUserIds : api_delete_poem(u, <<"P", "o">>, <<"H", "o", "p", "e">>)
    \/ \E u \in ApiUserIds : api_delete_author(u, <<"P", "o">>)
    \/ \E u \in ApiUserIds : api_delete_all(u)

AccessSpec == BotInit /\ [][AccessNext]_vars

ApiOps ==
    {"api_upload_poem", "api_delete_poem", "api_delete_author",
     "api_delete_all"}

\* the step is a bot update of user u
BotStep(u) ==
    /\ ops' = ops + 1
    /\ last'.op \notin ApiOps
    /\ last'.user = u

\* the step is an API request with this user_id
ApiStep(u) ==
    /\ ops' = ops + 1
    /\ last'.op \in ApiOps
    /\ last'.user_id = u

=============================================================================
